---- MODULE Spec2Model ----
(***************************************************************************)
(* Model of the OCP test-and-validation output engine (ocptv::output).     *)
(*                                                                         *)
(* One TestRun owns an Arc<Mutex<TestState>>; the state holds the emitter  *)
(* (sequence counter + writer).  Every emitting method of TestRun,         *)
(* StartedTestRun and of the steps derived from it locks the state, calls  *)
(* emitter.emit and releases the lock when the guard goes out of scope.    *)
(* Callers are asynchronous tasks; each emitting call is split into the    *)
(* points at which the future can be suspended or at which it touches      *)
(* shared state: call, lock acquisition, sequence-number assignment,       *)
(* encode/write, return (guard dropped).                                   *)
(***************************************************************************)
EXTENDS Integers, Sequences, FiniteSets, TLC

\* ---------------------------------------------------------------- bounds
NumTasks == 2
MaxEmits == 4
MaxSteps == 2
MaxFailures == 1

Tasks == 1..NumTasks

VARIABLES
    phase,         \* lifecycle of the run object: built / starting / started / start_failed
    lockHolder,    \* tokio Mutex around TestState: 0 = free, else the task holding the guard
    sequence_no,   \* emitter's sequence counter
    sink,          \* the writer: lines that reached it, in order
    step_seqno,    \* StartedTestRun.step_seqno
    steps,         \* TestStep objects created by StartedTestRun::step, in creation order
    pc,            \* per task: where its current emitting call is
    cur,           \* per task: its current emit call (id in hist, issuing method, step index)
    hist,          \* every emit call issued, in issue order
    lockOrder,     \* ids of the emit calls, in the order they acquired the lock
    series,        \* MeasurementSeries objects created on the steps, in creation order
    series_seqno,  \* per step: the step's series-id counter
    art,           \* per task: the step-scope artifact its current call is emitting
    out,           \* the last line a step-scope emit handed to the writer
    outOf,         \* the step and series objects whose call wrote `out`
    run,           \* the TestRun's own fields (name, version, dut, command line, ...)
    calls,         \* the methods called on the run so far, with arguments and result
    twin,          \* a second run, built and driven by the same calls as the first
    wire           \* one value of the schema, its encoding and what is decoded from it

\* The variables of the step and series scopes and of the run's content; the
\* interleaving model of the emitter (Spec) leaves them as they are.
other == <<series, series_seqno, art, out, outOf, run, calls, twin, wire>>

vars == <<phase, lockHolder, sequence_no, sink, step_seqno, steps,
          pc, cur, hist, lockOrder, other>>

\* ---------------------------------------------------------------- data
NoStep == "none"

\* format!("step_{}", n)
StepId(n) == "step_" \o ToString(n)

\* One emit call: the artifact kind, the step id the artifact carries, the sequence number it was assigned (-1 before assignment),
\* its outcome and the number of sink write attempts it made.
NewCall(kind, stepId) ==
    [kind |-> kind, testStepId |-> stepId,
     seq |-> -1, res |-> "pending", att |-> 0, ret |-> "none"]

\* spec::Root: the artifact flattened with its sequence number.
Root(c) ==
    [kind |-> c.kind, testStepId |-> c.testStepId, sequenceNumber |-> c.seq]

\* What a task that is in no emitting method holds.
NoCall == [id |-> 0, op |-> "none", step |-> 0]

\* A task that is emitting no step-scope artifact.
NoArt ==
    [kind |-> "none", step |-> 0, series |-> 0, id |-> NoStep, series_id |-> "none",
     index |-> -1, total_count |-> -1, seq |-> -1]

\* Nothing written by a step-scope emit yet.
NoLine ==
    [kind |-> "none", testStepId |-> NoStep, measurementSeriesId |-> "none",
     index |-> -1, totalCount |-> -1, sequenceNumber |-> -1]

NoObject == [step |-> 0, series |-> 0]

\* Option<T>
None == [some |-> FALSE]

Some(v) == [some |-> TRUE, v |-> v]

\* JSON null, and a JSON string in a place where null can stand too.
JNull == [null |-> TRUE]

JString(s) == [string |-> s]

\* An Option<String> on its way to the encoder: the string, if any, is a JSON string.
OptionString(o) == IF o.some THEN Some(JString(o.v)) ELSE None

\* Mutation of OptionField: a field that is None is left out of the object.
OptionFieldSkipped(key, o) == IF o.some THEN key :> o.v ELSE <<>>

\* The derived Serialize writes every field of a struct under its serde name; an
\* Option is written as null for None and as the value's own encoding for Some.
OptionField(key, o) == key :> (IF o.some THEN o.v ELSE JNull)

\* serde_json::Map: Map::new(), and insert, which replaces the value of a key
\* that is there already.
Map_new == <<>>

Map_insert(m, key, value) == (key :> value) @@ m

\* TestRunBuilder::new(name, dut, version): the required fields are set, the
\* command line is the process' arguments after the first (joined by blanks; an
\* input here), parameters start empty and metadata absent.
TestRunBuilder_new(name, dut, version, args) ==
    [name |-> name, dut |-> dut, version |-> version, parameters |-> Map_new,
     command_line |-> args, metadata |-> None]

\* TestRunBuilder::add_parameter(key, value)
TestRunBuilder_add_parameter(b, key, value) ==
    [b EXCEPT !.parameters = Map_insert(@, key, value)]

\* Mutation of TestRunBuilder_command_line: the setter leaves the field as new
\* found it.
TestRunBuilder_command_lineIgnored(b, cmd) == b

\* TestRunBuilder::command_line(cmd)
TestRunBuilder_command_line(b, cmd) == [b EXCEPT !.command_line = cmd]

\* Mutation of TestRunBuilder_add_metadata: every call starts a new map.
TestRunBuilder_add_metadataFresh(b, key, value) ==
    [b EXCEPT !.metadata = Some(Map_insert(Map_new, key, value))]

\* TestRunBuilder::add_metadata(key, value): the first call creates the map.
TestRunBuilder_add_metadata(b, key, value) ==
    [b EXCEPT !.metadata =
        IF @.some THEN Some(Map_insert(@.v, key, value))
        ELSE Some(Map_insert(Map_new, key, value))]

\* TestRunBuilder::build moves every field of the builder into the TestRun.
TestRunBuilder_build(b) ==
    [name |-> b.name, dut |-> b.dut, version |-> b.version,
     parameters |-> b.parameters, command_line |-> b.command_line,
     metadata |-> b.metadata]

\* DutInfo::new(id)
DutInfo_new(id) ==
    [id |-> id, name |-> None, platform_infos |-> None, software_infos |-> None,
     hardware_infos |-> None, metadata |-> None]

\* TestRun::new(name, dut_id, version)
TestRun_new(name, dut_id, version, args) ==
    TestRunBuilder_build(TestRunBuilder_new(name, DutInfo_new(dut_id), version, args))

\* No second run is followed and nothing is being encoded on its own.
NoTwin == [phase |-> "none"]

NoWire == [op |-> "none"]

\* No step or series exists, no step-scope emit is under way.
NoScopes ==
    /\ series = <<>>
    /\ series_seqno = <<>>
    /\ art = [t \in Tasks |-> NoArt]
    /\ out = NoLine
    /\ outOf = NoObject
    /\ twin = NoTwin
    /\ wire = NoWire

Init ==
    /\ phase = "built"
    /\ lockHolder = 0
    /\ sequence_no = 0
    /\ sink = <<>>
    /\ step_seqno = 0
    /\ steps = <<>>
    /\ pc = [t \in Tasks |-> "idle"]
    /\ cur = [t \in Tasks |-> NoCall]
    /\ hist = <<>>
    /\ lockOrder = <<>>
    /\ NoScopes
    /\ run = TestRun_new("run_name", "dut_id", "1.0", "")
    /\ calls = <<>>

\* Task t can take up a new call.  Tasks are interchangeable (no state names the
\* task that made a finished call), so a new call is given to the lowest idle task.
Free(t) ==
    /\ pc[t] = "idle"
    /\ \A u \in Tasks : u < t => pc[u] # "idle"

\* ------------------------------------------------- the emitting call path
\* An async method was called with an artifact built: the future now awaits
\* self.state.lock().
Call(t, h, op, kind, step, stepId) ==
    /\ Len(h) < MaxEmits
    /\ hist' = Append(h, NewCall(kind, stepId))
    /\ cur' = [cur EXCEPT ![t] = [id |-> Len(h) + 1, op |-> op, step |-> step]]
    /\ pc' = [pc EXCEPT ![t] = "lock"]

\* Mutation of LockFree: the emit path runs without waiting for the mutex.
LockAlwaysFree == TRUE

\* state.lock().await resolves: the mutex is free and this task takes the guard.
LockFree == lockHolder = 0

LockAcquire(t) ==
    /\ pc[t] = "lock"
    /\ LockFree
    /\ lockHolder' = t
    /\ lockOrder' = Append(lockOrder, cur[t].id)
    /\ pc' = [pc EXCEPT ![t] = "observe"]
    /\ UNCHANGED <<other, phase, sequence_no, sink, step_seqno, steps, cur, hist>>

\* emit -> serialize_artifact -> next_sequence_no: the call observes the counter ...
NextSequenceNoObserve(t) ==
    /\ pc[t] = "observe"
    /\ hist' = [hist EXCEPT ![cur[t].id].seq = sequence_no]
    /\ pc' = [pc EXCEPT ![t] = "advance"]
    /\ UNCHANGED <<other, phase, lockHolder, sequence_no, sink, step_seqno, steps,
                   cur, lockOrder>>

\* ... and advances it by one, before anything is encoded or written.
NextSeqNo(observed) == observed + 1

\* Mutation of HolderAfterAssign: the guard is a temporary dropped before the write.
HolderAfterAssignDropped(t) == 0

\* The guard taken in `let emitter = &self.run.state.lock().await.emitter;` lives to
\* the end of the method, so the task still holds the mutex after the assignment.
HolderAfterAssign(t) == t

NextSequenceNoAdvance(t) ==
    /\ pc[t] = "advance"
    /\ sequence_no' = NextSeqNo(hist[cur[t].id].seq)
    /\ lockHolder' = HolderAfterAssign(t)
    /\ pc' = [pc EXCEPT ![t] = "emit"]
    /\ UNCHANGED <<other, phase, sink, step_seqno, steps, cur, hist, lockOrder>>

\* Mutation of AfterFailure: the method tries the emit again after an error.
AfterFailureRetry == "emit"

\* `emitter.emit(..).await?`: an error of emit is returned at once, the method
\* does not go back to emit again.
AfterFailure == "ret"

\* The emit calls that have failed so far; the model injects at most MaxFailures.
Failed == {c \in 1..Len(hist) : hist[c].res \in {"serfail", "writefail"}}

MayFail == Cardinality(Failed) < MaxFailures

\* Encoding the envelope fails: the error is returned, nothing is handed to the sink.
EmitEncodeFail(t) ==
    /\ pc[t] = "emit"
    /\ MayFail
    /\ hist' = [hist EXCEPT ![cur[t].id].res = "serfail"]
    /\ pc' = [pc EXCEPT ![t] = AfterFailure]
    /\ UNCHANGED <<other, phase, lockHolder, sequence_no, sink, step_seqno, steps, cur,
                   lockOrder>>

\* The one write of the encoded line; the sink accepts it ...
EmitWriteOk(t) ==
    /\ pc[t] = "emit"
    /\ sink' = Append(sink, Root(hist[cur[t].id]))
    /\ hist' = [hist EXCEPT ![cur[t].id].res = "ok", ![cur[t].id].att = @ + 1]
    /\ pc' = [pc EXCEPT ![t] = "ret"]
    /\ UNCHANGED <<other, phase, lockHolder, sequence_no, step_seqno, steps, cur,
                   lockOrder>>

\* ... or rejects it (I/O failure, closed buffer): no line, no retry.
EmitWriteFail(t) ==
    /\ pc[t] = "emit"
    /\ MayFail
    /\ hist' = [hist EXCEPT ![cur[t].id].res = "writefail", ![cur[t].id].att = @ + 1]
    /\ pc' = [pc EXCEPT ![t] = AfterFailure]
    /\ UNCHANGED <<other, phase, lockHolder, sequence_no, sink, step_seqno, steps, cur,
                   lockOrder>>

\* Mutation of HandlerResult: the error of emit is swallowed.
HandlerResultAlwaysOk(res) == "Ok"

\* `emitter.emit(..).await?; Ok(())`: what the method hands back to its caller.
HandlerResult(res) == IF res = "ok" THEN "Ok" ELSE "Err"

\* Mutation of Released: the guard is never dropped (leaked); the mutex stays
\* with the task that took it.
ReleasedNever(t) == lockHolder

\* Mutation of Released: the guard is dropped on the Ok path only, an error
\* leaves the method with the mutex still held.
ReleasedOnlyOnOk(t) ==
    IF lockHolder = t /\ hist[cur[t].id].res = "ok" THEN 0 ELSE lockHolder

\* The guard is dropped: the mutex is free again unless another task holds it.
Released(t) == IF lockHolder = t THEN 0 ELSE lockHolder

\* The emit call of task t returns: its record is closed with the method's result.
Closed(t) == [hist EXCEPT ![cur[t].id].ret = HandlerResult(hist[cur[t].id].res)]

\* A method whose only emit has returned hands its result to the caller.
Return(t) ==
    /\ hist' = Closed(t)
    /\ lockHolder' = Released(t)
    /\ cur' = [cur EXCEPT ![t] = NoCall]
    /\ pc' = [pc EXCEPT ![t] = "idle"]

\* ------------------------------------------------------------ TestRun::start
\* Mutation of StartFirstKind: start emits the run start without the marker.
StartFirstKindRunStart == "testRunStart"

\* SchemaVersion::new().to_artifact(): the first artifact start emits.
StartFirstKind == "schemaVersion"

\* Mutation of StartShortCircuits: start ignores the result of its emits.
StartNeverShortCircuits(res) == FALSE

\* The `?` after each emit of start: an error ends start there.
StartShortCircuits(res) == res # "ok"

\* Mutation of StartCallable: start borrows the run, so it can be called again on
\* a run that has started.
StartCallableAgain == phase \in {"built", "started"}

\* start takes `self` by value: it can be called on a TestRun that was built and
\* not started, and on nothing else.
StartCallable == phase = "built"

\* start(self): builds the schema-version marker and awaits the lock for it.
TestRun_start(t) ==
    /\ StartCallable
    /\ Free(t)
    /\ phase' = "starting"
    /\ Call(t, hist, "start_sv", StartFirstKind, 0, NoStep)
    /\ UNCHANGED <<other, lockHolder, sequence_no, sink, step_seqno, steps, lockOrder>>

\* The first statement of start is over (its guard dropped). On an error start
\* returns it; otherwise the testRunStart artifact is built from the run's fields
\* (a local computation that touches no shared state) and the lock is awaited a
\* second time.
TestRun_start_schemaVersionDone(t) ==
    /\ pc[t] = "ret"
    /\ cur[t].op = "start_sv"
    /\ lockHolder' = Released(t)
    /\ IF StartShortCircuits(hist[cur[t].id].res)
       THEN /\ phase' = "start_failed"
            /\ hist' = Closed(t)
            /\ cur' = [cur EXCEPT ![t] = NoCall]
            /\ pc' = [pc EXCEPT ![t] = "idle"]
       ELSE /\ phase' = phase
            /\ Call(t, Closed(t), "start_trs", "testRunStart", 0, NoStep)
    /\ UNCHANGED <<other, sequence_no, sink, step_seqno, steps, lockOrder>>

\* The second emit of start is over: Ok(StartedTestRun::new(self)) or the error.
TestRun_start_runStartDone(t) ==
    /\ pc[t] = "ret"
    /\ cur[t].op = "start_trs"
    /\ phase' = IF StartShortCircuits(hist[cur[t].id].res) THEN "start_failed" ELSE "started"
    /\ Return(t)
    /\ UNCHANGED <<other, sequence_no, sink, step_seqno, steps, lockOrder>>

\* ------------------------------------------------------------ StartedTestRun
\* Mutation of StartedTestRunExists: the started run is handed out as soon as
\* start is called.
StartedTestRunExistsEarly == phase \in {"starting", "started"}

\* The only StartedTestRun is the one start returns in its last line,
\* Ok(StartedTestRun::new(self)), after both emits succeeded; log, error, end and
\* step are methods of StartedTestRun alone.
StartedTestRunExists == phase = "started"

\* A run-level method of a StartedTestRun is called by an idle task.
RunEmit(t, kind) ==
    /\ StartedTestRunExists
    /\ Free(t)
    /\ Call(t, hist, "run_emit", kind, 0, NoStep)
    /\ UNCHANGED <<other, phase, lockHolder, sequence_no, sink, step_seqno, steps,
                   lockOrder>>

StartedTestRun_end(t) == RunEmit(t, "testRunEnd")

StartedTestRun_log(t) == RunEmit(t, "log")

StartedTestRun_log_with_details(t) == RunEmit(t, "log")

StartedTestRun_error(t) == RunEmit(t, "error")

StartedTestRun_error_with_msg(t) == RunEmit(t, "error")

StartedTestRun_error_with_details(t) == RunEmit(t, "error")

\* end / log / error: `emitter.emit(..).await?; Ok(())`, then the guard is dropped.
StartedTestRun_emitDone(t) ==
    /\ pc[t] = "ret"
    /\ cur[t].op = "run_emit"
    /\ Return(t)
    /\ UNCHANGED <<other, phase, sequence_no, sink, step_seqno, steps, lockOrder>>

\* Mutation of StepSeqnoFetched: the id is built from the value after the addition.
StepSeqnoAfterAdd == step_seqno + 1

\* self.step_seqno.fetch_add(1, AcqRel) returns the value before the addition.
StepSeqnoFetched == step_seqno

\* Mutation of StepSeqnoStored: the counter is read but not advanced (a load).
StepSeqnoStoredUnchanged == step_seqno

\* self.step_seqno.fetch_add(1, AcqRel) leaves the counter one higher, in the same
\* atomic read-modify-write that returned the old value.
StepSeqnoStored == step_seqno + 1

\* step(&self, name): synchronous, takes no lock; the id is fixed here.
StartedTestRun_step(t) ==
    /\ StartedTestRunExists
    /\ Free(t)
    /\ Len(steps) < MaxSteps
    /\ steps' = Append(steps, [id |-> StepId(StepSeqnoFetched), state |-> "created"])
    /\ step_seqno' = StepSeqnoStored
    /\ UNCHANGED <<other, phase, lockHolder, sequence_no, sink, pc, cur, hist,
                   lockOrder>>

\* ------------------------------------------------ TestStep / StartedTestStep
\* start(self) consumes the TestStep and emits testStepStart under the run's lock.
TestStep_start(t, i) ==
    /\ Free(t)
    /\ steps[i].state = "created"
    /\ steps' = [steps EXCEPT ![i].state = "starting"]
    /\ Call(t, hist, "step_start", "testStepStart", i, steps[i].id)
    /\ UNCHANGED <<other, phase, lockHolder, sequence_no, sink, step_seqno, lockOrder>>

TestStep_startDone(t) ==
    /\ pc[t] = "ret"
    /\ cur[t].op = "step_start"
    /\ steps' = [steps EXCEPT ![cur[t].step].state =
                    IF hist[cur[t].id].res = "ok" THEN "started" ELSE "start_failed"]
    /\ Return(t)
    /\ UNCHANGED <<other, phase, sequence_no, sink, step_seqno, lockOrder>>

StepEmit(t, i, kind) ==
    /\ Free(t)
    /\ steps[i].state = "started"
    /\ Call(t, hist, "step_emit", kind, i, steps[i].id)
    /\ UNCHANGED <<other, phase, lockHolder, sequence_no, sink, step_seqno, steps,
                   lockOrder>>

StartedTestStep_log(t, i) == StepEmit(t, i, "log")

StartedTestStep_end(t, i) == StepEmit(t, i, "testStepEnd")

StartedTestStep_emitDone(t) ==
    /\ pc[t] = "ret"
    /\ cur[t].op = "step_emit"
    /\ Return(t)
    /\ UNCHANGED <<other, phase, sequence_no, sink, step_seqno, steps, lockOrder>>

\* ------------------------------------------------------------ specification
Next ==
    \/ \E t \in Tasks : TestRun_start(t)
    \/ \E t \in Tasks : TestRun_start_schemaVersionDone(t)
    \/ \E t \in Tasks : TestRun_start_runStartDone(t)
    \/ \E t \in Tasks : StartedTestRun_end(t)
    \/ \E t \in Tasks : StartedTestRun_log(t)
    \/ \E t \in Tasks : StartedTestRun_log_with_details(t)
    \/ \E t \in Tasks : StartedTestRun_error(t)
    \/ \E t \in Tasks : StartedTestRun_error_with_msg(t)
    \/ \E t \in Tasks : StartedTestRun_error_with_details(t)
    \/ \E t \in Tasks : StartedTestRun_emitDone(t)
    \/ \E t \in Tasks : StartedTestRun_step(t)
    \/ \E t \in Tasks : \E i \in 1..Len(steps) : TestStep_start(t, i)
    \/ \E t \in Tasks : TestStep_startDone(t)
    \/ \E t \in Tasks : \E i \in 1..Len(steps) : StartedTestStep_log(t, i)
    \/ \E t \in Tasks : \E i \in 1..Len(steps) : StartedTestStep_end(t, i)
    \/ \E t \in Tasks : StartedTestStep_emitDone(t)
    \/ \E t \in Tasks : LockAcquire(t)
    \/ \E t \in Tasks : NextSequenceNoObserve(t)
    \/ \E t \in Tasks : NextSequenceNoAdvance(t)
    \/ \E t \in Tasks : EmitEncodeFail(t)
    \/ \E t \in Tasks : EmitWriteOk(t)
    \/ \E t \in Tasks : EmitWriteFail(t)

Spec == Init /\ [][Next]_vars

\* ================================================== step and series scopes
\* The step and series objects of a started run.  What a step or a series puts
\* into its artifacts does not depend on the stream's past, so this specification
\* keeps the last line handed to the writer (`out`, with the objects that wrote
\* it in `outOf`) and per-series tallies instead of the whole stream; `sink`,
\* `hist` and `lockOrder` stay at the three lines written before.  The step
\* of an emit from taking the lock to the counter's advance is one action here
\* (nothing else can run inside it: C2), and the write, the method's own
\* bookkeeping and the drop of the guard are a second one.
MaxScopeEmits == 3
MaxSeriesEmits == 4
MaxSeries == 2

\* format!("series_{}", n)
SeriesId(n) == "series_" \o ToString(n)

\* Ids a caller passes to measurement_series_with_details.
SuppliedIds == {"series_id"}

\* The state after TestRun::start succeeded, step() was called twice and the first
\* of the two steps was started.
ScopesInit ==
    /\ phase = "started"
    /\ lockHolder = 0
    /\ sequence_no = 3
    /\ hist = <<[kind |-> "schemaVersion", testStepId |-> NoStep, seq |-> 0,
                 res |-> "ok", att |-> 1, ret |-> "Ok"],
                [kind |-> "testRunStart", testStepId |-> NoStep, seq |-> 1,
                 res |-> "ok", att |-> 1, ret |-> "Ok"],
                [kind |-> "testStepStart", testStepId |-> StepId(0), seq |-> 2,
                 res |-> "ok", att |-> 1, ret |-> "Ok"]>>
    /\ sink = <<Root(hist[1]), Root(hist[2]), Root(hist[3])>>
    /\ lockOrder = <<1, 2, 3>>
    /\ step_seqno = 2
    /\ steps = <<[id |-> StepId(0), state |-> "started"],
                 [id |-> StepId(1), state |-> "created"]>>
    /\ pc = [t \in Tasks |-> "idle"]
    /\ cur = [t \in Tasks |-> NoCall]
    /\ series = <<>>
    /\ series_seqno = <<0, 0>>
    /\ art = [t \in Tasks |-> NoArt]
    /\ out = NoLine
    /\ outOf = NoObject
    /\ run = TestRun_new("run_name", "dut_id", "1.0", "")
    /\ calls = <<>>
    /\ twin = NoTwin
    /\ wire = NoWire

\* What the step and series actions leave alone.
scopeFrozen == <<phase, sink, step_seqno, cur, hist, lockOrder, run, calls, twin, wire>>

\* The artifact of a step-level method of step i: it carries the step's own id.
StepArt(kind, i) ==
    [kind |-> kind, step |-> i, series |-> 0, id |-> steps[i].id,
     series_id |-> "none", index |-> -1, total_count |-> -1, seq |-> -1]

\* The artifact of a method of series s: the id of the step the series was created
\* on, and the series' own id.
SeriesArt(kind, s, index, total_count) ==
    [kind |-> kind, step |-> series[s].step, series |-> s,
     id |-> steps[series[s].step].id, series_id |-> series[s].id,
     index |-> index, total_count |-> total_count, seq |-> -1]

\* Mutation of TestStepArtifact_testStepId: the id is left out of the wire record.
TestStepArtifact_testStepIdSkipped(a) == NoStep

\* spec::TestStepArtifact: the `id` field goes on the wire as testStepId.
TestStepArtifact_testStepId(a) == a.id

\* Mutation of MeasurementSeries_measurementSeriesId: the end marker loses the id.
MeasurementSeries_measurementSeriesIdNotOnEnd(a) ==
    IF a.kind = "measurementSeriesEnd" THEN "none" ELSE a.series_id

\* spec::MeasurementSeriesStart / End / Element: the `series_id` field of each goes
\* on the wire as measurementSeriesId.
MeasurementSeries_measurementSeriesId(a) == a.series_id

\* spec::Root around a TestStepArtifact: the line handed to the writer.
StepRoot(a) ==
    [kind |-> a.kind,
     testStepId |-> TestStepArtifact_testStepId(a),
     measurementSeriesId |-> MeasurementSeries_measurementSeriesId(a),
     index |-> a.index,
     totalCount |-> a.total_count,
     sequenceNumber |-> a.seq]

\* Emit calls made since the initial state: those that were assigned a number and
\* those still waiting for the lock.
ScopeEmits == (sequence_no - Len(sink)) + Cardinality({t \in Tasks : pc[t] = "lock"})

\* A method of a step or series was called with its artifact built: the future
\* awaits the lock.
ScopeCall(t, a) ==
    /\ Free(t)
    /\ art' = [art EXCEPT ![t] = a]
    /\ pc' = [pc EXCEPT ![t] = "lock"]

\* --------------------------------------------------------------- TestStep
TestStep_start_scope(t, i) ==
    /\ steps[i].state = "created"
    /\ steps' = [steps EXCEPT ![i].state = "starting"]
    /\ ScopeCall(t, StepArt("testStepStart", i))
    /\ UNCHANGED <<scopeFrozen, lockHolder, sequence_no, series, series_seqno,
                   out, outOf>>

\* A method of a StartedTestStep that emits one artifact and changes nothing else.
StartedStepEmit(t, i, kind) ==
    /\ steps[i].state = "started"
    /\ ScopeCall(t, StepArt(kind, i))
    /\ UNCHANGED <<scopeFrozen, lockHolder, sequence_no, steps, series,
                   series_seqno, out, outOf>>

StartedTestStep_log_scope(t, i) == StartedStepEmit(t, i, "log")

StartedTestStep_error(t, i) == StartedStepEmit(t, i, "error")

StartedTestStep_add_measurement(t, i) == StartedStepEmit(t, i, "measurement")

StartedTestStep_end_scope(t, i) == StartedStepEmit(t, i, "testStepEnd")

\* Mutation of SeriesSeqnoFetched: one counter for all the steps of the run.
SeriesSeqnoFetchedRunWide(i) ==
    Cardinality({s \in 1..Len(series) : series[s].given = ""})

\* The step's series-id counter, read and advanced in one atomic step.
SeriesSeqnoFetched(i) == series_seqno[i]

\* A new, unstarted series object on step i: the step it belongs to, its id, its
\* lifecycle state and its element counter.  The other fields are bookkeeping
\* about the object, not part of it: the id the caller supplied ("" if none),
\* whether an earlier series of the step had already ended at creation, the id on
\* the series' start line, the number of its element lines that reached the
\* writer, whether one of its add calls failed, and whether its end line was
\* written.
NewSeries(i, id, given) ==
    [step |-> i, id |-> id, state |-> "created", index |-> 0,
     given |-> given,
     afterEnd |-> \E r \in 1..Len(series) : series[r].step = i /\ series[r].ended,
     startLineId |-> "none", elements |-> 0, addFailed |-> FALSE, ended |-> FALSE]

\* measurement_series(name): synchronous, takes no lock; the id comes from the
\* step's counter.
StartedTestStep_measurement_series(t, i) ==
    /\ Free(t)
    /\ steps[i].state = "started"
    /\ Len(series) < MaxSeries
    /\ series' = Append(series, NewSeries(i, SeriesId(SeriesSeqnoFetched(i)), ""))
    /\ series_seqno' = [series_seqno EXCEPT ![i] = @ + 1]
    /\ UNCHANGED <<scopeFrozen, lockHolder, sequence_no, steps, pc, art, out, outOf>>

\* measurement_series_with_details(start): the id is the one in `start`.
StartedTestStep_measurement_series_with_details(t, i, id) ==
    /\ Free(t)
    /\ steps[i].state = "started"
    /\ Len(series) < MaxSeries
    /\ series' = Append(series, NewSeries(i, id, id))
    /\ UNCHANGED <<scopeFrozen, lockHolder, sequence_no, steps, series_seqno, pc,
                   art, out, outOf>>

\* ------------------------------------------------------ MeasurementSeries
\* No other call on series s is under way: the calls on one series object are
\* made one after the other.
SeriesIdle(s) == \A u \in Tasks : art[u].series # s

MeasurementSeries_start(t, s) ==
    /\ series[s].state = "created"
    /\ series' = [series EXCEPT ![s].state = "starting"]
    /\ ScopeCall(t, SeriesArt("measurementSeriesStart", s, -1, -1))
    /\ UNCHANGED <<scopeFrozen, lockHolder, sequence_no, steps, series_seqno,
                   out, outOf>>

\* add_measurement(value) / add_measurement_with_metadata(value, metadata): the
\* element carries the series' current index.
SeriesAdd(t, s) ==
    /\ series[s].state = "started"
    /\ SeriesIdle(s)
    /\ ScopeCall(t, SeriesArt("measurementSeriesElement", s, series[s].index, -1))
    /\ UNCHANGED <<scopeFrozen, lockHolder, sequence_no, steps, series,
                   series_seqno, out, outOf>>

StartedMeasurementSeries_add_measurement(t, s) == SeriesAdd(t, s)

StartedMeasurementSeries_add_measurement_with_metadata(t, s) == SeriesAdd(t, s)

\* Mutation of EndTotalCount: the end marker carries the last index handed out.
EndTotalCountLastIndex(s) == IF series[s].index = 0 THEN 0 ELSE series[s].index - 1

\* end(): the total count is the element counter's value.
EndTotalCount(s) == series[s].index

StartedMeasurementSeries_end(t, s) ==
    /\ series[s].state = "started"
    /\ SeriesIdle(s)
    /\ ScopeCall(t, SeriesArt("measurementSeriesEnd", s, -1, EndTotalCount(s)))
    /\ UNCHANGED <<scopeFrozen, lockHolder, sequence_no, steps, series,
                   series_seqno, out, outOf>>

\* ------------------------------------------------------- the emit, in two steps
\* The lock is free: the call takes it, reads the counter into its envelope and
\* advances the counter.
ScopeLockAndNumber(t) ==
    /\ pc[t] = "lock"
    /\ LockFree
    /\ lockHolder' = t
    /\ art' = [art EXCEPT ![t].seq = sequence_no]
    /\ sequence_no' = NextSeqNo(sequence_no)
    /\ pc' = [pc EXCEPT ![t] = "emit"]
    /\ UNCHANGED <<scopeFrozen, steps, series, series_seqno, out, outOf>>

\* Mutation of ElementIndexAfter: the index advances whether or not the element
\* was emitted.
ElementIndexAfterAlways(index, ok) == index + 1

\* The element counter after an add call: one higher when the element was emitted.
ElementIndexAfter(index, ok) == IF ok THEN index + 1 ELSE index

\* Mutation of StepsAfter: start hands out the started step whatever its emit
\* returned.
StepsAfterAlwaysStarted(a, ok) ==
    IF a.kind = "testStepStart"
    THEN [steps EXCEPT ![a.step].state = "started"]
    ELSE steps

\* What the method does with the result of its emit before it returns: a start
\* yields the started object or the error; an add call advances the element
\* counter.
StepsAfter(a, ok) ==
    IF a.kind = "testStepStart"
    THEN [steps EXCEPT ![a.step].state = IF ok THEN "started" ELSE "start_failed"]
    ELSE steps

SeriesAfter(a, ok) ==
    CASE a.kind = "measurementSeriesStart" ->
            [series EXCEPT ![a.series].state = IF ok THEN "started" ELSE "start_failed",
                           ![a.series].startLineId =
                               IF ok THEN StepRoot(a).measurementSeriesId ELSE @]
      [] a.kind = "measurementSeriesElement" ->
            [series EXCEPT ![a.series].index = ElementIndexAfter(@, ok),
                           ![a.series].elements = IF ok THEN @ + 1 ELSE @,
                           ![a.series].addFailed = @ \/ ~ok]
      [] a.kind = "measurementSeriesEnd" ->
            [series EXCEPT ![a.series].ended = @ \/ ok]
      [] OTHER -> series

ScopeReturn(t, ok) ==
    /\ steps' = StepsAfter(art[t], ok)
    /\ series' = SeriesAfter(art[t], ok)
    /\ lockHolder' = Released(t)
    /\ art' = [art EXCEPT ![t] = NoArt]
    /\ pc' = [pc EXCEPT ![t] = "idle"]

\* The line is encoded and written; the method returns Ok.
ScopeEmitOk(t) ==
    /\ pc[t] = "emit"
    /\ art[t].kind # "none"
    /\ out' = StepRoot(art[t])
    /\ outOf' = [step |-> art[t].step, series |-> art[t].series]
    /\ ScopeReturn(t, TRUE)
    /\ UNCHANGED <<scopeFrozen, sequence_no, series_seqno>>

\* Encoding or writing fails: nothing reaches the writer, the method returns the
\* error.
ScopeEmitErr(t) ==
    /\ pc[t] = "emit"
    /\ art[t].kind # "none"
    /\ ScopeReturn(t, FALSE)
    /\ UNCHANGED <<scopeFrozen, sequence_no, series_seqno, out, outOf>>

\* Any task calls any method of the steps and series while emits are left.
MayCall == ScopeEmits < MaxScopeEmits

\* This specification follows one series, on either step, next to the step-level
\* methods; runs with several series are those of SpecSeries.
NoSeriesYet == series = <<>>

ScopesNext ==
    \/ \E t \in Tasks : \E i \in 1..Len(steps) : MayCall /\ TestStep_start_scope(t, i)
    \/ \E t \in Tasks : \E i \in 1..Len(steps) :
          MayCall /\ StartedTestStep_log_scope(t, i)
    \/ \E t \in Tasks : \E i \in 1..Len(steps) : MayCall /\ StartedTestStep_error(t, i)
    \/ \E t \in Tasks : \E i \in 1..Len(steps) :
          MayCall /\ StartedTestStep_add_measurement(t, i)
    \/ \E t \in Tasks : \E i \in 1..Len(steps) :
          MayCall /\ StartedTestStep_end_scope(t, i)
    \/ \E t \in Tasks : \E i \in 1..Len(steps) :
          NoSeriesYet /\ StartedTestStep_measurement_series(t, i)
    \/ \E t \in Tasks : \E i \in 1..Len(steps) : \E id \in SuppliedIds :
          NoSeriesYet /\ StartedTestStep_measurement_series_with_details(t, i, id)
    \/ \E t \in Tasks : \E s \in 1..Len(series) :
          MayCall /\ MeasurementSeries_start(t, s)
    \/ \E t \in Tasks : \E s \in 1..Len(series) :
          MayCall /\ StartedMeasurementSeries_add_measurement(t, s)
    \/ \E t \in Tasks : \E s \in 1..Len(series) :
          MayCall /\ StartedMeasurementSeries_add_measurement_with_metadata(t, s)
    \/ \E t \in Tasks : \E s \in 1..Len(series) :
          MayCall /\ StartedMeasurementSeries_end(t, s)
    \/ \E t \in Tasks : ScopeLockAndNumber(t)
    \/ \E t \in Tasks : ScopeEmitOk(t)
    \/ \E t \in Tasks : ScopeEmitErr(t)

SpecScopes == ScopesInit /\ [][ScopesNext]_vars

\* ------------------------------------------------- one caller, series only
\* A single caller that awaits every call before it makes the next one, creating
\* series on the steps and driving them: longer runs of one series than the
\* concurrent specification can afford.
MayCallNext ==
    /\ \A u \in Tasks : pc[u] = "idle"
    /\ ScopeEmits < MaxSeriesEmits

SeriesNext ==
    \/ \E t \in Tasks : \E i \in 1..Len(steps) :
          MayCallNext /\ TestStep_start_scope(t, i)
    \/ \E t \in Tasks : \E i \in 1..Len(steps) :
          MayCallNext /\ StartedTestStep_measurement_series(t, i)
    \/ \E t \in Tasks : \E i \in 1..Len(steps) : \E id \in SuppliedIds :
          MayCallNext /\ StartedTestStep_measurement_series_with_details(t, i, id)
    \/ \E t \in Tasks : \E s \in 1..Len(series) :
          MayCallNext /\ MeasurementSeries_start(t, s)
    \/ \E t \in Tasks : \E s \in 1..Len(series) :
          MayCallNext /\ StartedMeasurementSeries_add_measurement(t, s)
    \/ \E t \in Tasks : \E s \in 1..Len(series) :
          MayCallNext /\ StartedMeasurementSeries_add_measurement_with_metadata(t, s)
    \/ \E t \in Tasks : \E s \in 1..Len(series) :
          MayCallNext /\ StartedMeasurementSeries_end(t, s)
    \/ \E t \in Tasks : ScopeLockAndNumber(t)
    \/ \E t \in Tasks : ScopeEmitOk(t)
    \/ \E t \in Tasks : ScopeEmitErr(t)

SpecSeries == ScopesInit /\ [][SeriesNext]_vars

\* ==================================================== the run's own lines
\* What TestRun::start and StartedTestRun::end put on their lines.  One caller
\* builds a run and calls its methods one after the other; `calls` records each
\* call with its arguments and result, and the lines in `sink` carry their fields.
MaxCalls == 3

\* Inputs of the caller.
Names == {"run_name", "diag"}
Versions == {"1.0", "2.1"}
DutIds == {"dut_id", "my_dut"}
CommandLines == {"", "--verbose"}

\* spec::TestStatus and spec::TestResult
TestStatus == {"Complete", "Error", "Skip"}
TestResult == {"Pass", "Fail", "NotApplicable"}

\* The serde names of the TestStatus variants.
TestStatusWire(s) ==
    CASE s = "Complete" -> "COMPLETE"
      [] s = "Error" -> "ERROR"
      [] s = "Skip" -> "SKIP"

\* The serde names of the TestResult variants.
TestResultWire(r) ==
    CASE r = "Pass" -> "PASS"
      [] r = "Fail" -> "FAIL"
      [] r = "NotApplicable" -> "NOT_APPLICABLE"

\* spec::DiagnosisType
DiagnosisType == {"Pass", "Fail", "Unknown"}

\* The serde names of the DiagnosisType variants.
DiagnosisTypeWire(d) ==
    CASE d = "Pass" -> "PASS"
      [] d = "Fail" -> "FAIL"
      [] d = "Unknown" -> "UNKNOWN"

\* pub const SPEC_VERSION: (i8, i8) = (2, 0)
SPEC_VERSION == <<2, 0>>

\* One method call on the run: the method, its arguments, its result.
CallRecord(op, a, b, c, res) == [op |-> op, a |-> a, b |-> b, c |-> c, res |-> res]

\* A run was built with TestRun::new(name, dut_id, version); nothing is emitted yet.
LinesInit ==
    /\ phase = "built"
    /\ lockHolder = 0
    /\ sequence_no = 0
    /\ sink = <<>>
    /\ step_seqno = 0
    /\ steps = <<>>
    /\ pc = [t \in Tasks |-> "idle"]
    /\ cur = [t \in Tasks |-> NoCall]
    /\ hist = <<>>
    /\ lockOrder = <<>>
    /\ NoScopes
    /\ \E n \in Names, d \in DutIds, v \in Versions, a \in CommandLines :
          /\ run = TestRun_new(n, d, v, a)
          /\ calls = <<CallRecord("new", n, d, v, "Ok")>>

\* What the run's own methods leave alone here.
linesFrozen == <<lockHolder, step_seqno, steps, pc, cur, hist, lockOrder, series,
                 series_seqno, art, out, outOf, run, twin, wire>>

\* spec::Root: the artifact's fields next to the sequence number it was given.
RootOf(artifact, seq) == artifact @@ [sequenceNumber |-> seq]

\* SchemaVersion::new().to_artifact(): major and minor of SPEC_VERSION.
SchemaVersion_to_artifact ==
    [kind |-> "schemaVersion", major |-> SPEC_VERSION[1], minor |-> SPEC_VERSION[2]]

\* TestRunStartBuilder::new(name, version, command_line, parameters, dut_info)
TestRunStartBuilder_new(name, version, command_line, parameters, dut_info) ==
    [name |-> name, version |-> version, command_line |-> command_line,
     parameters |-> parameters, metadata |-> None, dut_info |-> dut_info]

\* TestRunStartBuilder::add_metadata(key, value)
TestRunStartBuilder_add_metadata(b, key, value) ==
    [b EXCEPT !.metadata =
        IF @.some THEN Some(Map_insert(@.v, key, value))
        ELSE Some(Map_insert(Map_new, key, value))]

\* `for m in m { builder = builder.add_metadata(m.0, m.1.clone()) }`
RECURSIVE TestRunStartBuilder_add_each(_, _, _)
TestRunStartBuilder_add_each(b, m, keys) ==
    IF keys = {} THEN b
    ELSE LET k == CHOOSE k \in keys : TRUE
         IN  TestRunStartBuilder_add_each(TestRunStartBuilder_add_metadata(b, k, m[k]),
                                          m, keys \ {k})

\* The loop of start over the run's metadata: every entry is added to the builder.
TestRunStartBuilder_add_all_metadata(b, metadata) ==
    IF metadata.some
    THEN TestRunStartBuilder_add_each(b, metadata.v, DOMAIN metadata.v)
    ELSE b

\* TestRunStartBuilder::build moves every field into the TestRunStart.
TestRunStartBuilder_build(b) ==
    [name |-> b.name, version |-> b.version, command_line |-> b.command_line,
     parameters |-> b.parameters, metadata |-> b.metadata, dut_info |-> b.dut_info]

\* dut::DutInfo::to_spec: every field goes into the spec::DutInfo.
DutInfo_to_spec(dut) ==
    [id |-> dut.id, name |-> dut.name, platform_infos |-> dut.platform_infos,
     software_infos |-> dut.software_infos, hardware_infos |-> dut.hardware_infos,
     metadata |-> dut.metadata]

\* spec::DutInfo, as the derived Serialize writes it.
DutInfo_serialize(d) ==
    [dutInfoId |-> d.id]
       @@ OptionField("name", OptionString(d.name))
       @@ OptionField("platformInfos", d.platform_infos)
       @@ OptionField("softwareInfos", d.software_infos)
       @@ OptionField("hardwareInfos", d.hardware_infos)
       @@ OptionField("metadata", d.metadata)

\* TestRunStart::to_artifact, with the serde names of spec::TestRunStart.
TestRunStart_to_artifact(start) ==
    [kind |-> "testRunStart", name |-> start.name, version |-> start.version,
     commandLine |-> start.command_line, parameters |-> start.parameters,
     dutInfo |-> DutInfo_serialize(DutInfo_to_spec(start.dut_info))]
       @@ OptionField("metadata", start.metadata)

\* The TestRunStart that start builds from the run's fields.
StartOf(r) ==
    TestRunStartBuilder_build(
        TestRunStartBuilder_add_all_metadata(
            TestRunStartBuilder_new(r.name, r.version, r.command_line, r.parameters,
                                    r.dut),
            r.metadata))

\* TestRunEndBuilder::new(): Complete and Pass until set.
TestRunEndBuilder_new == [status |-> "Complete", result |-> "Pass"]

\* Mutation of TestRunEndBuilder_status: the setter leaves the default in place.
TestRunEndBuilder_statusIgnored(b, value) == b

\* TestRunEndBuilder::status(value)
TestRunEndBuilder_status(b, value) == [b EXCEPT !.status = value]

\* TestRunEndBuilder::result(value)
TestRunEndBuilder_result(b, value) == [b EXCEPT !.result = value]

\* TestRunEndBuilder::build
TestRunEndBuilder_build(b) == [status |-> b.status, result |-> b.result]

\* TestRunEnd::to_artifact, with the serde names of spec::TestRunEnd.
TestRunEnd_to_artifact(end) ==
    [kind |-> "testRunEnd", status |-> TestStatusWire(end.status),
     result |-> TestResultWire(end.result)]

\* start(self) as a whole, with the outcome of its emits: the marker's emit fails
\* ("sv_failed"), the run start's emit fails ("trs_failed"), or both succeed.  Each
\* emit that was made took a sequence number.
Lines_TestRun_start(o) ==
    /\ StartCallable
    /\ Len(calls) < MaxCalls
    /\ LET version == RootOf(SchemaVersion_to_artifact, sequence_no)
           start == RootOf(TestRunStart_to_artifact(StartOf(run)),
                           NextSeqNo(sequence_no))
       IN  CASE o = "sv_failed" ->
                   /\ sink' = sink
                   /\ sequence_no' = NextSeqNo(sequence_no)
                   /\ phase' = "start_failed"
             [] o = "trs_failed" ->
                   /\ sink' = Append(sink, version)
                   /\ sequence_no' = NextSeqNo(NextSeqNo(sequence_no))
                   /\ phase' = "start_failed"
             [] o = "ok" ->
                   /\ sink' = sink \o <<version, start>>
                   /\ sequence_no' = NextSeqNo(NextSeqNo(sequence_no))
                   /\ phase' = "started"
    /\ calls' = Append(calls, CallRecord("start", "", "", "",
                                         IF o = "ok" THEN "Ok" ELSE "Err"))
    /\ UNCHANGED linesFrozen

\* The one emit of a method of the started run, written or failed.
LinesEmit(artifact, ok) ==
    /\ sink' = IF ok THEN Append(sink, RootOf(artifact, sequence_no)) ELSE sink
    /\ sequence_no' = NextSeqNo(sequence_no)

\* end(status, result)
Lines_StartedTestRun_end(status, result, ok) ==
    /\ StartedTestRunExists
    /\ Len(calls) < MaxCalls
    /\ LinesEmit(TestRunEnd_to_artifact(TestRunEndBuilder_build(
                    TestRunEndBuilder_result(
                        TestRunEndBuilder_status(TestRunEndBuilder_new, status),
                        result))),
                 ok)
    /\ calls' = Append(calls, CallRecord("end", status, result, "",
                                         IF ok THEN "Ok" ELSE "Err"))
    /\ UNCHANGED <<linesFrozen, phase>>

\* log(severity, message): any other call on the started run.
Lines_StartedTestRun_log(ok) ==
    /\ StartedTestRunExists
    /\ Len(calls) < MaxCalls
    /\ LinesEmit([kind |-> "log"], ok)
    /\ calls' = Append(calls, CallRecord("log", "", "", "", IF ok THEN "Ok" ELSE "Err"))
    /\ UNCHANGED <<linesFrozen, phase>>

LinesNext ==
    \/ \E o \in {"ok", "sv_failed", "trs_failed"} : Lines_TestRun_start(o)
    \/ \E status \in TestStatus, result \in TestResult, ok \in BOOLEAN :
          Lines_StartedTestRun_end(status, result, ok)
    \/ \E ok \in BOOLEAN : Lines_StartedTestRun_log(ok)

SpecLines == LinesInit /\ [][LinesNext]_vars

\* ------------------------------------------------------------- fair scheduling
\* The runtime polls every task that can make progress, the mutex hands the lock
\* to its waiters in the order they queued (so a waiter is not passed over for
\* ever), and the sink answers every write, with success or with an error.
Fairness ==
    \A t \in Tasks :
       /\ SF_vars(LockAcquire(t))
       /\ WF_vars(NextSequenceNoObserve(t))
       /\ WF_vars(NextSequenceNoAdvance(t))
       /\ WF_vars(EmitWriteOk(t) \/ EmitWriteFail(t) \/ EmitEncodeFail(t))
       /\ WF_vars(TestRun_start_schemaVersionDone(t))
       /\ WF_vars(TestRun_start_runStartDone(t))
       /\ WF_vars(StartedTestRun_emitDone(t))
       /\ WF_vars(TestStep_startDone(t))
       /\ WF_vars(StartedTestStep_emitDone(t))

\* The calls issued under fair scheduling are bounded by their own budget.
MaxFairEmits == 4

FairMayCall == Len(hist) < MaxFairEmits

\* start, end and log of the run and the start and end of one step, called by any
\* task, with the emit path of each call.
FairNext ==
    \/ \E t \in Tasks : TestRun_start(t)
    \/ \E t \in Tasks : TestRun_start_schemaVersionDone(t)
    \/ \E t \in Tasks : TestRun_start_runStartDone(t)
    \/ \E t \in Tasks : FairMayCall /\ StartedTestRun_end(t)
    \/ \E t \in Tasks : FairMayCall /\ StartedTestRun_log(t)
    \/ \E t \in Tasks : StartedTestRun_emitDone(t)
    \/ \E t \in Tasks : steps = <<>> /\ StartedTestRun_step(t)
    \/ \E t \in Tasks : \E i \in 1..Len(steps) : FairMayCall /\ TestStep_start(t, i)
    \/ \E t \in Tasks : TestStep_startDone(t)
    \/ \E t \in Tasks : \E i \in 1..Len(steps) : FairMayCall /\ StartedTestStep_end(t, i)
    \/ \E t \in Tasks : StartedTestStep_emitDone(t)
    \/ \E t \in Tasks : LockAcquire(t)
    \/ \E t \in Tasks : NextSequenceNoObserve(t)
    \/ \E t \in Tasks : NextSequenceNoAdvance(t)
    \/ \E t \in Tasks : EmitEncodeFail(t)
    \/ \E t \in Tasks : EmitWriteOk(t)
    \/ \E t \in Tasks : EmitWriteFail(t)

SpecFair == Init /\ [][FairNext]_vars /\ Fairness

\* ------------------------------------------------------------ the wire format
\* Subcomponent::builder(name).build(): only the name is set.
Subcomponent_builder_build(name) ==
    [subcomponent_type |-> None, name |-> name, location |-> None,
     version |-> None, revision |-> None]

\* spec::Subcomponent, as the derived Serialize writes it.
Subcomponent_serialize(c) ==
    [name |-> c.name]
       @@ OptionField("type", OptionString(c.subcomponent_type))
       @@ OptionField("location", OptionString(c.location))
       @@ OptionField("version", OptionString(c.version))
       @@ OptionField("revision", OptionString(c.revision))

\* MeasurementSeriesStart::new(name, series_id): no optional field is set.
MeasurementSeriesStart_new(name, series_id) ==
    [name |-> name, unit |-> None, series_id |-> series_id, validators |-> None,
     hardware_info |-> None, subcomponent |-> None, metadata |-> None]

\* MeasurementSeriesStartBuilder::unit / subcomponent / add_metadata
MeasurementSeriesStartBuilder_unit(b, unit) == [b EXCEPT !.unit = Some(unit)]

MeasurementSeriesStartBuilder_subcomponent(b, c) == [b EXCEPT !.subcomponent = Some(c)]

MeasurementSeriesStartBuilder_add_metadata(b, key, value) ==
    [b EXCEPT !.metadata = Some(Map_insert(IF @.some THEN @.v ELSE Map_new, key, value))]

\* The series starts a caller hands to measurement_series_with_details.
SeriesStarts ==
    LET plain == MeasurementSeriesStart_new("name", "series_id")
        sub == Subcomponent_builder_build("name")
    IN  {plain,
         MeasurementSeriesStartBuilder_unit(plain, "volts"),
         MeasurementSeriesStartBuilder_subcomponent(plain, sub),
         MeasurementSeriesStartBuilder_add_metadata(plain, "key", "value"),
         MeasurementSeriesStartBuilder_add_metadata(
             MeasurementSeriesStartBuilder_subcomponent(
                 MeasurementSeriesStartBuilder_unit(plain, "volts"), sub),
             "key", "value")}

\* spec::MeasurementSeriesStart, as the derived Serialize writes it: the serde
\* name of the field `subcomponent` is subComponent.
MeasurementSeriesStart_serialize(s) ==
    [name |-> s.name, measurementSeriesId |-> s.series_id]
       @@ OptionField("unit", OptionString(s.unit))
       @@ OptionField("validators", s.validators)
       @@ OptionField("hardwareInfoId", s.hardware_info)
       @@ OptionField("subComponent",
                      IF s.subcomponent.some
                      THEN Some(Subcomponent_serialize(s.subcomponent.v))
                      ELSE None)
       @@ OptionField("metadata", s.metadata)

\* spec::HardwareInfo with its required fields set, and as the derived Serialize
\* writes it.
HardwareInfo_new(id, name) ==
    [id |-> id, name |-> name, version |-> None, revision |-> None,
     location |-> None, serial_no |-> None, part_no |-> None, manufacturer |-> None,
     manufacturer_part_no |-> None, odata_id |-> None, computer_system |-> None,
     manager |-> None]

HardwareInfo_serialize(h) ==
    [hardwareInfoId |-> h.id, name |-> h.name]
       @@ OptionField("version", OptionString(h.version))
       @@ OptionField("revision", OptionString(h.revision))
       @@ OptionField("location", OptionString(h.location))
       @@ OptionField("serialNumber", OptionString(h.serial_no))
       @@ OptionField("partNumber", OptionString(h.part_no))
       @@ OptionField("manufacturer", OptionString(h.manufacturer))
       @@ OptionField("manufacturerPartNumber", OptionString(h.manufacturer_part_no))
       @@ OptionField("odataId", OptionString(h.odata_id))
       @@ OptionField("computerSystem", OptionString(h.computer_system))
       @@ OptionField("manager", OptionString(h.manager))

\* An Option<Subcomponent> and an Option<HardwareInfo> on their way to the encoder.
OptionSubcomponent(o) == IF o.some THEN Some(Subcomponent_serialize(o.v)) ELSE None

OptionHardwareInfo(o) == IF o.some THEN Some(HardwareInfo_serialize(o.v)) ELSE None

\* The measurements and diagnoses a caller builds: with and without a
\* subcomponent, a hardware info and a unit.
Measurements ==
    {[name |-> "name", value |-> 50, unit |-> u, validators |-> None,
      hardware_info_id |-> h, subcomponent |-> c, metadata |-> None] :
        u \in {None, Some("volts")}, h \in {None, Some("hw0")},
        c \in {None, Some(Subcomponent_builder_build("name"))}}

Diagnoses ==
    {[verdict |-> "verdict", diagnosis_type |-> t, message |-> None,
      hardware_info |-> h, subcomponent |-> c, source_location |-> None] :
        t \in DiagnosisType, h \in {None, Some(HardwareInfo_new("hw0", "fan"))},
        c \in {None, Some(Subcomponent_builder_build("name"))}}

\* spec::Measurement, as the derived Serialize writes it.
Measurement_serialize(m) ==
    [name |-> m.name, value |-> m.value]
       @@ OptionField("unit", OptionString(m.unit))
       @@ OptionField("validators", m.validators)
       @@ OptionField("hardwareInfoId", OptionString(m.hardware_info_id))
       @@ OptionField("subcomponent", OptionSubcomponent(m.subcomponent))
       @@ OptionField("metadata", m.metadata)

\* spec::Diagnosis, as the derived Serialize writes it: the serde name of the
\* field `hardware_info` is validators, that of `subcomponent` is subComponent.
Diagnosis_serialize(d) ==
    [verdict |-> d.verdict, type |-> DiagnosisTypeWire(d.diagnosis_type)]
       @@ OptionField("message", OptionString(d.message))
       @@ OptionField("validators", OptionHardwareInfo(d.hardware_info))
       @@ OptionField("subComponent", OptionSubcomponent(d.subcomponent))
       @@ OptionField("sourceLocation", d.source_location)

\* SecondsFormat::Millis: the fraction of the second is written in milliseconds.
NanosPerMilli == 1000000

\* A DateTime<Tz>: the instant (seconds since the epoch and nanoseconds of the
\* second, UTC) and the offset from UTC, in seconds, of the zone at that instant.
DateTime(secs, nanos, offset) == [secs |-> secs, nanos |-> nanos, offset |-> offset]

Instants == {0, 1, 1641038400}

Nanos == {0, 1000000, 999999999, 123456789}

\* Offsets of chrono_tz zones: UTC, Europe/Paris, America/St_Johns (-03:30),
\* and two local mean times that are not whole minutes: Europe/Amsterdam until
\* 1937 (+00:19:32) and Africa/Monrovia until 1972 (-00:44:30).
Offsets == {0, 3600, -12600, 1172, -2670}

\* An offset in whole minutes, as RFC 3339 writes it (+hh:mm): the seconds of the
\* offset are cut or rounded to the nearest minute, depending on the chrono version.
OffsetMinutes(offset) ==
    LET sign == IF offset < 0 THEN -1 ELSE 1
        abs == sign * offset
    IN  {sign * (abs \div 60), sign * ((abs + 30) \div 60)}

\* date.to_rfc3339_opts(SecondsFormat::Millis, true): the zone's local date and
\* time to the millisecond, followed by the offset in minutes, or by Z for UTC.
to_rfc3339_opts(date, minutes) ==
    [local |-> date.secs + date.offset,
     millis |-> date.nanos \div NanosPerMilli,
     zulu |-> date.offset = 0,
     minutes |-> minutes]

\* DateTime::parse_from_rfc3339: the instant is the written local time less the
\* written offset.
parse_from_rfc3339(text) ==
    DateTime(text.local - text.minutes * 60, text.millis * NanosPerMilli,
             text.minutes * 60)

\* dt.with_timezone(&Tz::UTC): the same instant, in UTC.
with_timezone_UTC(dt) == DateTime(dt.secs, dt.nanos, 0)

\* rfc3339_format::serialize and ::deserialize
rfc3339_format_serialize(date, minutes) == to_rfc3339_opts(date, minutes)

rfc3339_format_deserialize(text) == with_timezone_UTC(parse_from_rfc3339(text))

\* The elements a caller can build.
Elements ==
    [index : {0, 1}, value : {"1.0"}, series_id : {"test"},
     metadata : {None, Some([key |-> "value"])},
     timestamp : {DateTime(s, n, o) : s \in Instants, n \in Nanos, o \in Offsets}]

\* spec::MeasurementSeriesElement, as the derived Serialize writes it; the
\* timestamp goes through rfc3339_format and keeps its field name.
MeasurementSeriesElement_serialize(e, minutes) ==
    [index |-> e.index, value |-> e.value,
     timestamp |-> rfc3339_format_serialize(e.timestamp, minutes),
     measurementSeriesId |-> e.series_id]
       @@ OptionField("metadata", e.metadata)

\* The derived Deserialize: every key back into its field, null into None.
MeasurementSeriesElement_deserialize(json) ==
    [index |-> json.index, value |-> json.value,
     timestamp |-> rfc3339_format_deserialize(json.timestamp),
     series_id |-> json.measurementSeriesId,
     metadata |-> IF json.metadata = JNull THEN None ELSE Some(json.metadata)]

\* Nothing has been encoded yet; no run is involved.
WireInit ==
    /\ phase = "none"
    /\ lockHolder = 0
    /\ sequence_no = 0
    /\ sink = <<>>
    /\ step_seqno = 0
    /\ steps = <<>>
    /\ pc = [t \in Tasks |-> "idle"]
    /\ cur = [t \in Tasks |-> NoCall]
    /\ hist = <<>>
    /\ lockOrder = <<>>
    /\ NoScopes
    /\ run = TestRun_new("run_name", "dut_id", "1.0", "")
    /\ calls = <<>>

wireFrozen == <<phase, lockHolder, sequence_no, sink, step_seqno, steps, pc, cur,
                hist, lockOrder, series, series_seqno, art, out, outOf, run, calls,
                twin>>

\* serde_json::to_value(start) of a measurement series start
Wire_MeasurementSeriesStart_serialize(s) ==
    /\ wire' = [op |-> "measurementSeriesStart", in |-> s,
                json |-> MeasurementSeriesStart_serialize(s)]
    /\ UNCHANGED wireFrozen

\* serde_json::to_value(element)
Wire_MeasurementSeriesElement_serialize(e) ==
    /\ \E minutes \in OffsetMinutes(e.timestamp.offset) :
          wire' = [op |-> "measurementSeriesElement", in |-> e,
                   json |-> MeasurementSeriesElement_serialize(e, minutes)]
    /\ UNCHANGED wireFrozen

\* serde_json::from_value::<MeasurementSeriesElement>(json) of what was encoded
Wire_MeasurementSeriesElement_deserialize ==
    /\ wire.op = "measurementSeriesElement"
    /\ wire' = [op |-> "decoded", in |-> wire.in, json |-> wire.json,
                back |-> MeasurementSeriesElement_deserialize(wire.json)]
    /\ UNCHANGED wireFrozen

\* serde_json::to_value(measurement) and serde_json::to_value(diagnosis)
Wire_Measurement_serialize(m) ==
    /\ wire' = [op |-> "measurement", in |-> m, json |-> Measurement_serialize(m)]
    /\ UNCHANGED wireFrozen

Wire_Diagnosis_serialize(d) ==
    /\ wire' = [op |-> "diagnosis", in |-> d, json |-> Diagnosis_serialize(d)]
    /\ UNCHANGED wireFrozen

WireNext ==
    \/ \E m \in Measurements : Wire_Measurement_serialize(m)
    \/ \E d \in Diagnoses : Wire_Diagnosis_serialize(d)
    \/ \E s \in SeriesStarts : Wire_MeasurementSeriesStart_serialize(s)
    \/ \E e \in Elements : Wire_MeasurementSeriesElement_serialize(e)
    \/ Wire_MeasurementSeriesElement_deserialize

SpecWire == WireInit /\ [][WireNext]_vars

\* ------------------------------------------------------ the run's artifacts
\* spec::LogSeverity
LogSeverity == {"Debug", "Info", "Warning", "Error", "Fatal"}

\* Mutation of LogSeverityWire: without a serde rename the variant's own name
\* is written.
LogSeverityVariantName(s) == s

\* The serde names of the LogSeverity variants.
LogSeverityWire(s) ==
    CASE s = "Debug" -> "DEBUG"
      [] s = "Info" -> "INFO"
      [] s = "Warning" -> "WARNING"
      [] s = "Error" -> "ERROR"
      [] s = "Fatal" -> "FATAL"

\* spec::SourceLocation, as the derived Serialize writes it.
SourceLocation_serialize(l) == [file |-> l.file, line |-> l.line]

\* An Option<SourceLocation> on its way to the encoder.
OptionSourceLocation(o) ==
    IF o.some THEN Some(SourceLocation_serialize(o.v)) ELSE None

\* log::Log::builder(msg), .severity(value), .source(file, line), .build()
Log_builder(msg) == [severity |-> "Info", message |-> msg, source_location |-> None]

Log_severity(b, value) == [b EXCEPT !.severity = value]

Log_source(b, file, line) ==
    [b EXCEPT !.source_location = Some([file |-> file, line |-> line])]

Log_build(b) ==
    [severity |-> b.severity, message |-> b.message,
     source_location |-> b.source_location]

\* log.to_artifact() inside a TestRunArtifact: spec::Log as the derived Serialize
\* writes it.
Log_to_artifact(log) ==
    [kind |-> "log", severity |-> LogSeverityWire(log.severity),
     message |-> log.message]
       @@ OptionField("sourceLocation", OptionSourceLocation(log.source_location))

\* error::Error::builder(symptom), .message(value), .source(file, line), .build()
Error_builder(symptom) ==
    [symptom |-> symptom, message |-> None, software_infos |-> None,
     source_location |-> None]

Error_message(b, value) == [b EXCEPT !.message = Some(value)]

Error_source(b, file, line) ==
    [b EXCEPT !.source_location = Some([file |-> file, line |-> line])]

Error_build(b) ==
    [symptom |-> b.symptom, message |-> b.message,
     software_infos |-> b.software_infos, source_location |-> b.source_location]

\* error.to_artifact() inside a TestRunArtifact: spec::Error as the derived
\* Serialize writes it.
Error_to_artifact(error) ==
    [kind |-> "error", symptom |-> error.symptom]
       @@ OptionField("message", OptionString(error.message))
       @@ OptionField("softwareInfoIds", error.software_infos)
       @@ OptionField("sourceLocation", OptionSourceLocation(error.source_location))

\* spec::TestStepStart and spec::TestStepEnd inside a TestStepArtifact.
TestStepStart_to_artifact(id, name) ==
    [kind |-> "testStepStart", testStepId |-> id, name |-> name]

TestStepEnd_to_artifact(id, status) ==
    [kind |-> "testStepEnd", testStepId |-> id, status |-> TestStatusWire(status)]

\* The methods of StartedTestRun.
StartedTestRunMethods ==
    {"end", "log", "log_with_details", "error", "error_with_msg",
     "error_with_details", "step"}

\* The method ocptv_error! calls on its first argument, and the one the
\* ocptv_log_<severity>! macros call.
ocptv_error_method == "add_error_with_details"

ocptv_log_method == "add_log_with_details"

\* Bound on the calls made on one run.
MaxContentCalls == 3

\* Inputs of the caller.
Symptoms == {"symptom"}

Messages == {"Error message"}

LogMessages == {"This is a log message"}

\* file!() and line!() where a macro is written.
CallSites == {[file |-> "src/main.rs", line |-> 10]}

\* The logs and errors a caller builds for log_with_details and
\* error_with_details.
Logs ==
    {Log_build(Log_source(Log_severity(Log_builder(m), "Info"), "file", 1)) :
        m \in LogMessages}
    \cup {Log_build(Log_severity(Log_builder(m), "Warning")) : m \in LogMessages}

Errors ==
    {Error_build(Error_source(Error_message(Error_builder(s), m), "file", 1)) :
        s \in Symptoms, m \in Messages}
    \cup {Error_build(Error_builder(s)) : s \in Symptoms}

\* One call on the started run or on its step: the method, the object it emits,
\* the sequence number its emit took and its result.
ContentCall(op, obj, seq, res) == [op |-> op, obj |-> obj, seq |-> seq, res |-> res]

\* A run built by TestRun::builder(..).build(), as in the tests, in a process
\* started with or without arguments.
ContentInit ==
    /\ phase = "built"
    /\ lockHolder = 0
    /\ sequence_no = 0
    /\ sink = <<>>
    /\ step_seqno = 0
    /\ steps = <<>>
    /\ pc = [t \in Tasks |-> "idle"]
    /\ cur = [t \in Tasks |-> NoCall]
    /\ hist = <<>>
    /\ lockOrder = <<>>
    /\ NoScopes
    /\ \E a \in CommandLines : run = TestRun_new("run_name", "dut_id", "1.0", a)
    /\ calls = <<>>

contentFrozen == <<lockHolder, pc, cur, hist, lockOrder, series, series_seqno, art,
                   out, outOf, run, twin, wire>>

ContentMayFail == Cardinality({i \in 1..Len(calls) : calls[i].res = "Err"}) < MaxFailures

\* The one emit of a method, written or failed, and the record of the call.
ContentEmit(op, obj, artifact, ok) ==
    /\ Len(calls) < MaxContentCalls
    /\ ok \/ ContentMayFail
    /\ LinesEmit(artifact, ok)
    /\ calls' = Append(calls, ContentCall(op, obj, sequence_no,
                                          IF ok THEN "Ok" ELSE "Err"))

\* end(status, result)
Content_StartedTestRun_end(status, result, ok) ==
    /\ StartedTestRunExists
    /\ LET end == TestRunEndBuilder_build(
                     TestRunEndBuilder_result(
                        TestRunEndBuilder_status(TestRunEndBuilder_new, status), result))
       IN  ContentEmit("end", [status |-> status, result |-> result],
                       TestRunEnd_to_artifact(end), ok)
    /\ UNCHANGED <<contentFrozen, phase, steps, step_seqno>>

\* log(severity, msg)
Content_StartedTestRun_log(severity, msg, ok) ==
    /\ StartedTestRunExists
    /\ LET log == Log_build(Log_severity(Log_builder(msg), severity))
       IN  ContentEmit("log", log, Log_to_artifact(log), ok)
    /\ UNCHANGED <<contentFrozen, phase, steps, step_seqno>>

\* log_with_details(log)
Content_StartedTestRun_log_with_details(log, ok) ==
    /\ StartedTestRunExists
    /\ ContentEmit("log_with_details", log, Log_to_artifact(log), ok)
    /\ UNCHANGED <<contentFrozen, phase, steps, step_seqno>>

\* error(symptom)
Content_StartedTestRun_error(symptom, ok) ==
    /\ StartedTestRunExists
    /\ LET error == Error_build(Error_builder(symptom))
       IN  ContentEmit("error", error, Error_to_artifact(error), ok)
    /\ UNCHANGED <<contentFrozen, phase, steps, step_seqno>>

\* error_with_msg(symptom, msg)
Content_StartedTestRun_error_with_msg(symptom, msg, ok) ==
    /\ StartedTestRunExists
    /\ LET error == Error_build(Error_message(Error_builder(symptom), msg))
       IN  ContentEmit("error_with_msg", error, Error_to_artifact(error), ok)
    /\ UNCHANGED <<contentFrozen, phase, steps, step_seqno>>

\* error_with_details(error)
Content_StartedTestRun_error_with_details(error, ok) ==
    /\ StartedTestRunExists
    /\ ContentEmit("error_with_details", error, Error_to_artifact(error), ok)
    /\ UNCHANGED <<contentFrozen, phase, steps, step_seqno>>

\* A macro applied to the started run: the method call it expands to emits if
\* StartedTestRun has a method of that name; if it has none the expansion is no
\* call of the run at all, and nothing is emitted.
MacroCall(op, method, obj, artifact, ok) ==
    IF method \in StartedTestRunMethods
    THEN ContentEmit(op, obj, artifact, ok)
    ELSE /\ Len(calls) < MaxContentCalls
         /\ ok
         /\ calls' = Append(calls, ContentCall(op, obj, -1, "NoMethod"))
         /\ UNCHANGED <<sink, sequence_no>>

\* ocptv_error!(run, symptom) and ocptv_error!(run, symptom, msg), written at
\* `site`.
Content_ocptv_error(symptom, msg, site, ok) ==
    /\ StartedTestRunExists
    /\ LET b == IF msg.some THEN Error_message(Error_builder(symptom), msg.v)
                ELSE Error_builder(symptom)
           error == Error_build(Error_source(b, site.file, site.line))
       IN  MacroCall("ocptv_error", ocptv_error_method, error,
                     Error_to_artifact(error), ok)
    /\ UNCHANGED <<contentFrozen, phase, steps, step_seqno>>

\* ocptv_log_debug! .. ocptv_log_fatal!(run, msg), written at `site`.
Content_ocptv_log(severity, msg, site, ok) ==
    /\ StartedTestRunExists
    /\ LET log == Log_build(Log_source(Log_severity(Log_builder(msg), severity),
                                       site.file, site.line))
       IN  MacroCall("ocptv_log", ocptv_log_method, log, Log_to_artifact(log), ok)
    /\ UNCHANGED <<contentFrozen, phase, steps, step_seqno>>

\* step(name): one step is followed here.
Content_StartedTestRun_step ==
    /\ StartedTestRunExists
    /\ steps = <<>>
    /\ steps' = <<[id |-> StepId(StepSeqnoFetched), state |-> "created"]>>
    /\ step_seqno' = StepSeqnoStored
    /\ UNCHANGED <<contentFrozen, phase, sink, sequence_no, calls>>

\* TestStep::start
Content_TestStep_start(i, ok) ==
    /\ steps[i].state = "created"
    /\ ContentEmit("step_start", [name |-> "first step"],
                   TestStepStart_to_artifact(steps[i].id, "first step"), ok)
    /\ steps' = [steps EXCEPT ![i].state = IF ok THEN "started" ELSE "start_failed"]
    /\ UNCHANGED <<contentFrozen, phase, step_seqno>>

\* StartedTestStep::end(status)
Content_StartedTestStep_end(i, status, ok) ==
    /\ steps[i].state = "started"
    /\ ContentEmit("step_end", [status |-> status],
                   TestStepEnd_to_artifact(steps[i].id, status), ok)
    /\ UNCHANGED <<contentFrozen, phase, steps, step_seqno>>

ContentNext ==
    \/ \E o \in {"ok", "sv_failed", "trs_failed"} : Lines_TestRun_start(o)
    \/ \E status \in TestStatus, result \in TestResult, ok \in BOOLEAN :
          Content_StartedTestRun_end(status, result, ok)
    \/ \E severity \in LogSeverity, msg \in LogMessages, ok \in BOOLEAN :
          Content_StartedTestRun_log(severity, msg, ok)
    \/ \E log \in Logs, ok \in BOOLEAN : Content_StartedTestRun_log_with_details(log, ok)
    \/ \E symptom \in Symptoms, ok \in BOOLEAN : Content_StartedTestRun_error(symptom, ok)
    \/ \E symptom \in Symptoms, msg \in Messages, ok \in BOOLEAN :
          Content_StartedTestRun_error_with_msg(symptom, msg, ok)
    \/ \E error \in Errors, ok \in BOOLEAN :
          Content_StartedTestRun_error_with_details(error, ok)
    \/ \E symptom \in Symptoms, msg \in {None} \cup {Some(m) : m \in Messages},
          site \in CallSites, ok \in BOOLEAN :
          Content_ocptv_error(symptom, msg, site, ok)
    \/ \E severity \in LogSeverity, msg \in LogMessages, site \in CallSites,
          ok \in BOOLEAN :
          Content_ocptv_log(severity, msg, site, ok)
    \/ Content_StartedTestRun_step
    \/ \E i \in 1..Len(steps), ok \in BOOLEAN : Content_TestStep_start(i, ok)
    \/ \E i \in 1..Len(steps), status \in TestStatus, ok \in BOOLEAN :
          Content_StartedTestStep_end(i, status, ok)

SpecContent == ContentInit /\ [][ContentNext]_vars

\* ==================================================== two runs, the same calls
\* A caller builds a run through TestRunBuilder, starts it and calls its methods;
\* a second run, in a process of its own, is built and driven by the very same
\* calls, and the writer of each accepts or refuses the same writes.  The first
\* run lives in the variables of the run, the second in `twin`; `calls` records
\* the calls made on the builder.
MaxBuilderCalls == 3

\* Inputs of the caller, as in the builder test.
ParameterInputs == {<<"key", "value">>}

MetadataInputs == {<<"key", "value">>, <<"key2", "value2">>, <<"key", "value2">>}

ExplicitCommandLines == {"cmd_line"}

\* FixedTsProvider of the tests: now() is the epoch.
FixedTsProvider_now == 0

\* What now() of a fixed timestamp source returns: the epoch, or a second later.
Timestamps == {FixedTsProvider_now, FixedTsProvider_now + 1}

\* One run and what it has put out so far.
RunObject(p, r, seqno, lines, sseq, stps, now) ==
    [phase |-> p, run |-> r, sequence_no |-> seqno, sink |-> lines,
     step_seqno |-> sseq, steps |-> stps, now |-> now]

\* The first run, from the variables that hold it.
First == RunObject(phase, run, sequence_no, sink, step_seqno, steps, twin.now)

\* spec::Root with its timestamp: the artifact, its sequence number and now().
RootAt(artifact, seq, now) == RootOf(artifact, seq) @@ [timestamp |-> now]

\* emitter.emit on a run: the line is written or refused, the number is taken.
On_emit(st, artifact, ok) ==
    [st EXCEPT !.sink = IF ok THEN Append(@, RootAt(artifact, st.sequence_no, st.now))
                        ELSE @,
               !.sequence_no = NextSeqNo(@)]

\* The builder's setters and build, on the builder a run object holds.
On_add_parameter(st, key, value) ==
    [st EXCEPT !.run = TestRunBuilder_add_parameter(@, key, value)]

On_add_metadata(st, key, value) ==
    [st EXCEPT !.run = TestRunBuilder_add_metadata(@, key, value)]

On_command_line(st, cmd) ==
    [st EXCEPT !.run = TestRunBuilder_command_line(@, cmd)]

On_build(st) == [st EXCEPT !.run = TestRunBuilder_build(@), !.phase = "built"]

\* start(self) as a whole, with the outcome of its two emits.
On_start(st, o) ==
    LET marker == On_emit(st, SchemaVersion_to_artifact, o # "sv_failed")
        started == On_emit(marker, TestRunStart_to_artifact(StartOf(st.run)), o = "ok")
    IN  IF o = "sv_failed" THEN [marker EXCEPT !.phase = "start_failed"]
        ELSE [started EXCEPT !.phase = IF o = "ok" THEN "started" ELSE "start_failed"]

\* log(severity, msg)
On_log(st, severity, msg, ok) ==
    On_emit(st, Log_to_artifact(Log_build(Log_severity(Log_builder(msg), severity))), ok)

\* step(name): the id comes from the run's step counter.
On_step(st) ==
    [st EXCEPT !.steps = Append(@, [id |-> StepId(st.step_seqno), state |-> "created"]),
               !.step_seqno = @ + 1]

\* TestStep::start
On_step_start(st, i, ok) ==
    [On_emit(st, TestStepStart_to_artifact(st.steps[i].id, "first step"), ok)
        EXCEPT !.steps[i].state = IF ok THEN "started" ELSE "start_failed"]

\* end(status, result) consumes the started run.
On_end(st, status, result, ok) ==
    [On_emit(st, TestRunEnd_to_artifact(TestRunEndBuilder_build(
                    TestRunEndBuilder_result(
                       TestRunEndBuilder_status(TestRunEndBuilder_new, status),
                       result))), ok)
        EXCEPT !.phase = "ended"]

\* Two processes, started with arguments of their own, each construct
\* TestRun::builder("run_name", &dut, "1.0") and are given a timestamp source: the
\* first the tests' FixedTsProvider, the second that one or another.
BuilderInit ==
    /\ phase = "building"
    /\ lockHolder = 0
    /\ sequence_no = 0
    /\ sink = <<>>
    /\ step_seqno = 0
    /\ steps = <<>>
    /\ pc = [t \in Tasks |-> "idle"]
    /\ cur = [t \in Tasks |-> NoCall]
    /\ hist = <<>>
    /\ lockOrder = <<>>
    /\ series = <<>>
    /\ series_seqno = <<>>
    /\ art = [t \in Tasks |-> NoArt]
    /\ out = NoLine
    /\ outOf = NoObject
    /\ wire = NoWire
    /\ calls = <<>>
    /\ \E a1 \in CommandLines, a2 \in CommandLines, n1 \in {FixedTsProvider_now},
          n2 \in Timestamps :
          /\ run = TestRunBuilder_new("run_name", DutInfo_new("dut_id"), "1.0", a1)
          /\ twin = [args |-> <<a1, a2>>, now |-> n1, made |-> 0,
                     second |-> RunObject("building",
                                    TestRunBuilder_new("run_name", DutInfo_new("dut_id"),
                                                       "1.0", a2),
                                    0, <<>>, 0, <<>>, n2)]

builderFrozen == <<lockHolder, pc, cur, hist, lockOrder, series, series_seqno, art,
                   out, outOf, wire>>

\* Both runs after the same call: `a` is the first, `b` the second.
Both(a, b, made) ==
    /\ phase' = a.phase
    /\ run' = a.run
    /\ sequence_no' = a.sequence_no
    /\ sink' = a.sink
    /\ step_seqno' = a.step_seqno
    /\ steps' = a.steps
    /\ twin' = [twin EXCEPT !.second = b, !.made = made]
    /\ UNCHANGED builderFrozen

BuilderMayCall == phase = "building" /\ Len(calls) < MaxBuilderCalls

Builder_add_parameter(key, value) ==
    /\ BuilderMayCall
    /\ Both(On_add_parameter(First, key, value),
            On_add_parameter(twin.second, key, value), twin.made)
    /\ calls' = Append(calls, CallRecord("add_parameter", key, value, "", "Ok"))

Builder_add_metadata(key, value) ==
    /\ BuilderMayCall
    /\ Both(On_add_metadata(First, key, value),
            On_add_metadata(twin.second, key, value), twin.made)
    /\ calls' = Append(calls, CallRecord("add_metadata", key, value, "", "Ok"))

Builder_command_line(cmd) ==
    /\ BuilderMayCall
    /\ Both(On_command_line(First, cmd), On_command_line(twin.second, cmd), twin.made)
    /\ calls' = Append(calls, CallRecord("command_line", cmd, "", "", "Ok"))

Builder_build ==
    /\ phase = "building"
    /\ Both(On_build(First), On_build(twin.second), twin.made)
    /\ UNCHANGED calls

\* The calls on the built run; each is made on both runs, and the writers of
\* both give the same answer.
RunMayCall == twin.made < MaxCalls

Builder_start(o) ==
    /\ phase = "built"
    /\ RunMayCall
    /\ Both(On_start(First, o), On_start(twin.second, o), twin.made + 1)
    /\ UNCHANGED calls

Builder_log(severity, msg, ok) ==
    /\ phase = "started"
    /\ RunMayCall
    /\ Both(On_log(First, severity, msg, ok), On_log(twin.second, severity, msg, ok),
            twin.made + 1)
    /\ UNCHANGED calls

Builder_step ==
    /\ phase = "started"
    /\ steps = <<>>
    /\ Both(On_step(First), On_step(twin.second), twin.made)
    /\ UNCHANGED calls

Builder_step_start(i, ok) ==
    /\ phase = "started"
    /\ RunMayCall
    /\ steps[i].state = "created"
    /\ Both(On_step_start(First, i, ok), On_step_start(twin.second, i, ok),
            twin.made + 1)
    /\ UNCHANGED calls

Builder_end(status, result, ok) ==
    /\ phase = "started"
    /\ RunMayCall
    /\ Both(On_end(First, status, result, ok), On_end(twin.second, status, result, ok),
            twin.made + 1)
    /\ UNCHANGED calls

BuilderNext ==
    \/ \E p \in ParameterInputs : Builder_add_parameter(p[1], p[2])
    \/ \E m \in MetadataInputs : Builder_add_metadata(m[1], m[2])
    \/ \E cmd \in ExplicitCommandLines : Builder_command_line(cmd)
    \/ Builder_build
    \/ \E o \in {"ok", "sv_failed", "trs_failed"} : Builder_start(o)
    \/ \E msg \in LogMessages, ok \in BOOLEAN : Builder_log("Info", msg, ok)
    \/ Builder_step
    \/ \E i \in 1..Len(steps), ok \in BOOLEAN : Builder_step_start(i, ok)
    \/ \E ok \in BOOLEAN : Builder_end("Complete", "Pass", ok)

SpecBuilder == BuilderInit /\ [][BuilderNext]_vars

\* --------------------------------------------------------- dropped futures
\* The future of an emitting method can be dropped at one of its two suspension
\* points (select!, timeout, abort): while it waits for the mutex, or while it
\* holds the guard and waits for the sink.  Everything the future owns is dropped
\* with it, the guard included; the caller is free for another call.
MaxDrops == 1

Dropped == {c \in 1..Len(hist) : hist[c].res = "dropped"}

\* What the sink holds of a write that was cut off: not a complete line.
PartialLine == [kind |-> "partial", testStepId |-> NoStep, sequenceNumber |-> -1]

\* Mutation of GuardAfterDrop: the guard outlives the dropped future.
GuardLeakedOnDrop(t) == lockHolder

\* The MutexGuard is a temporary of the method's future (`let emitter =
\* &self.run.state.lock().await.emitter;`): dropping the future drops the guard.
GuardAfterDrop(t) == Released(t)

\* The future of task t's call is dropped; `wrote` says whether part of the line
\* had reached the sink.
FutureDropped(t, wrote) ==
    /\ pc[t] \in {"lock", "emit"}
    /\ Cardinality(Dropped) < MaxDrops
    /\ wrote => pc[t] = "emit"
    /\ hist' = [hist EXCEPT ![cur[t].id].res = "dropped", ![cur[t].id].ret = "Dropped"]
    /\ sink' = IF wrote THEN Append(sink, PartialLine) ELSE sink
    /\ lockHolder' = GuardAfterDrop(t)
    /\ cur' = [cur EXCEPT ![t] = NoCall]
    /\ pc' = [pc EXCEPT ![t] = "idle"]
    /\ UNCHANGED <<other, phase, sequence_no, step_seqno, steps, lockOrder>>

\* start, end and log of the run, called by any task, with the emit path of each
\* call, and the drop of a call's future.
DropNext ==
    \/ \E t \in Tasks : TestRun_start(t)
    \/ \E t \in Tasks : TestRun_start_schemaVersionDone(t)
    \/ \E t \in Tasks : TestRun_start_runStartDone(t)
    \/ \E t \in Tasks : FairMayCall /\ StartedTestRun_end(t)
    \/ \E t \in Tasks : FairMayCall /\ StartedTestRun_log(t)
    \/ \E t \in Tasks : StartedTestRun_emitDone(t)
    \/ \E t \in Tasks : LockAcquire(t)
    \/ \E t \in Tasks : NextSequenceNoObserve(t)
    \/ \E t \in Tasks : NextSequenceNoAdvance(t)
    \/ \E t \in Tasks : EmitEncodeFail(t)
    \/ \E t \in Tasks : EmitWriteOk(t)
    \/ \E t \in Tasks : EmitWriteFail(t)
    \/ \E t \in Tasks, wrote \in BOOLEAN : FutureDropped(t, wrote)

\* The scheduling is fair to the calls that are not dropped; nothing obliges a
\* future to be dropped.
SpecDrop == Init /\ [][DropNext]_vars /\ Fairness

\* ------------------------------------------- steps and a series, with the stream
\* The callers of SpecScopes, with every line that reaches the writer kept in
\* `sink`, and with add_measurement free to be called on a started series while
\* another call on the same series is under way (the method borrows the series).
MaxStreamEmits == 4

\* Emit calls made since the initial state: numbered ones and those waiting.
StreamEmits ==
    (sequence_no - Len(hist)) + Cardinality({t \in Tasks : pc[t] = "lock"})

StreamMayCall == StreamEmits < MaxStreamEmits

\* add_measurement(value) on a started series, whatever else is being called on
\* it: the element is built from the series' current index, then the lock is
\* awaited.
Stream_add_measurement(t, s) ==
    /\ series[s].state = "started"
    /\ ScopeCall(t, SeriesArt("measurementSeriesElement", s, series[s].index, -1))
    /\ UNCHANGED <<scopeFrozen, lockHolder, sequence_no, steps, series,
                   series_seqno, out, outOf>>

\* The line is encoded and written to the sink; the method returns Ok.
Stream_EmitOk(t) ==
    /\ pc[t] = "emit"
    /\ art[t].kind # "none"
    /\ sink' = Append(sink, StepRoot(art[t]))
    /\ out' = StepRoot(art[t])
    /\ outOf' = [step |-> art[t].step, series |-> art[t].series]
    /\ ScopeReturn(t, TRUE)
    /\ UNCHANGED <<phase, step_seqno, cur, hist, lockOrder, run, calls, twin, wire,
                   sequence_no, series_seqno>>

\* The sink refuses the line, within the budget of injected failures.
Stream_EmitErr(t) ==
    /\ sequence_no - Len(hist) - (Len(sink) - Len(hist))
          - Cardinality({u \in Tasks : pc[u] = "emit"}) < MaxFailures
    /\ ScopeEmitErr(t)

StreamNext ==
    \/ \E t \in Tasks : \E i \in 1..Len(steps) :
          StreamMayCall /\ TestStep_start_scope(t, i)
    \/ \E t \in Tasks : \E i \in 1..Len(steps) :
          StreamMayCall /\ StartedTestStep_log_scope(t, i)
    \/ \E t \in Tasks : \E i \in 1..Len(steps) :
          StreamMayCall /\ StartedTestStep_end_scope(t, i)
    \/ \E t \in Tasks : \E i \in 1..Len(steps) :
          NoSeriesYet /\ StartedTestStep_measurement_series(t, i)
    \/ \E t \in Tasks : \E s \in 1..Len(series) :
          StreamMayCall /\ MeasurementSeries_start(t, s)
    \/ \E t \in Tasks : \E s \in 1..Len(series) :
          StreamMayCall /\ Stream_add_measurement(t, s)
    \/ \E t \in Tasks : \E s \in 1..Len(series) :
          StreamMayCall /\ StartedMeasurementSeries_end(t, s)
    \/ \E t \in Tasks : ScopeLockAndNumber(t)
    \/ \E t \in Tasks : Stream_EmitOk(t)
    \/ \E t \in Tasks : Stream_EmitErr(t)

SpecStream == ScopesInit /\ [][StreamNext]_vars

\* ------------------------------------------------------ two runs, one process
\* Two runs are built in the same process and driven independently of each other.
\* `twin.states` holds the TestState objects allocated so far, each with its
\* emitter's counter and the lines its writer received; a run refers to its state
\* by its place there (the Arc in TestRun.state).  `twin.last` names the run the
\* last call was made on.
TwoRuns == {1, 2}

\* Emits on the state of one run, and steps created on one run.
MaxRunEmits == 3
MaxRunSteps == 1

\* state::TestState::new(emitter) around a new JsonEmitter: the counter at zero,
\* nothing written.
TestState_new == [sequence_no |-> 0, sink |-> <<>>]

\* Mutation of NewStateHandle: every run refers to one state of the process.
NewStateHandleShared(states) == 1

\* `state: Arc::new(Mutex::new(state))` in build: the run refers to the state just
\* allocated, which nothing else refers to.
NewStateHandle(states) == Len(states)

TwoInit ==
    /\ phase = "none"
    /\ lockHolder = 0
    /\ sequence_no = 0
    /\ sink = <<>>
    /\ step_seqno = 0
    /\ steps = <<>>
    /\ pc = [t \in Tasks |-> "idle"]
    /\ cur = [t \in Tasks |-> NoCall]
    /\ hist = <<>>
    /\ lockOrder = <<>>
    /\ series = <<>>
    /\ series_seqno = <<>>
    /\ art = [t \in Tasks |-> NoArt]
    /\ out = NoLine
    /\ outOf = NoObject
    /\ wire = NoWire
    /\ calls = <<>>
    /\ run = TestRun_new("run_name", "dut_id", "1.0", "")
    /\ twin = [states |-> <<>>, last |-> 0,
               runs |-> [r \in TwoRuns |->
                          [phase |-> "unbuilt", state |-> 0, step_seqno |-> 0,
                           steps |-> <<>>]]]

twoFrozen == <<phase, lockHolder, sequence_no, sink, step_seqno, steps, pc, cur,
               hist, lockOrder, series, series_seqno, art, out, outOf, wire, calls,
               run>>

\* The state run r refers to.
StateOf(r) == twin.states[twin.runs[r].state]

\* emitter.emit on the state of run r: the number is taken, the line is written
\* or refused.
Two_emitted(st, kind, id, ok) ==
    [st EXCEPT !.sink = IF ok
                        THEN Append(@, [kind |-> kind, testStepId |-> id,
                                        sequenceNumber |-> st.sequence_no])
                        ELSE @,
               !.sequence_no = NextSeqNo(@)]

\* The budget of emits on one state.
TwoMayEmit(r, n) == StateOf(r).sequence_no + n <= MaxRunEmits

\* TestRun::new / TestRunBuilder::build: the run gets a state of its own.
Two_TestRunBuilder_build(r) ==
    /\ twin.runs[r].phase = "unbuilt"
    /\ LET states == Append(twin.states, TestState_new)
       IN  twin' = [twin EXCEPT !.states = states, !.last = r,
                                !.runs[r].phase = "built",
                                !.runs[r].state = NewStateHandle(states)]
    /\ UNCHANGED twoFrozen

\* start(self), with the outcome of its two emits; StartedTestRun::new sets the
\* step counter to zero.
Two_TestRun_start(r, o) ==
    /\ twin.runs[r].phase = "built"
    /\ TwoMayEmit(r, 2)
    /\ LET marker == Two_emitted(StateOf(r), "schemaVersion", NoStep, o # "sv_failed")
           started == Two_emitted(marker, "testRunStart", NoStep, o = "ok")
       IN  twin' = [twin EXCEPT
                       !.states[twin.runs[r].state] =
                           IF o = "sv_failed" THEN marker ELSE started,
                       !.last = r,
                       !.runs[r].phase = IF o = "ok" THEN "started" ELSE "start_failed",
                       !.runs[r].step_seqno = 0]
    /\ UNCHANGED twoFrozen

\* log(severity, msg) on the started run
Two_StartedTestRun_log(r, ok) ==
    /\ twin.runs[r].phase = "started"
    /\ TwoMayEmit(r, 1)
    /\ twin' = [twin EXCEPT !.states[twin.runs[r].state] =
                               Two_emitted(@, "log", NoStep, ok),
                            !.last = r]
    /\ UNCHANGED twoFrozen

\* step(name): the id comes from the run's own step counter.
Two_StartedTestRun_step(r) ==
    /\ twin.runs[r].phase = "started"
    /\ Len(twin.runs[r].steps) < MaxRunSteps
    /\ twin' = [twin EXCEPT !.runs[r].steps =
                               Append(@, [id |-> StepId(twin.runs[r].step_seqno),
                                          state |-> "created"]),
                            !.runs[r].step_seqno = @ + 1,
                            !.last = r]
    /\ UNCHANGED twoFrozen

\* TestStep::start on a step of run r
Two_TestStep_start(r, i, ok) ==
    /\ twin.runs[r].steps[i].state = "created"
    /\ TwoMayEmit(r, 1)
    /\ twin' = [twin EXCEPT !.states[twin.runs[r].state] =
                               Two_emitted(@, "testStepStart",
                                           twin.runs[r].steps[i].id, ok),
                            !.runs[r].steps[i].state =
                               IF ok THEN "started" ELSE "start_failed",
                            !.last = r]
    /\ UNCHANGED twoFrozen

\* end(status, result) on the started run
Two_StartedTestRun_end(r, ok) ==
    /\ twin.runs[r].phase = "started"
    /\ TwoMayEmit(r, 1)
    /\ twin' = [twin EXCEPT !.states[twin.runs[r].state] =
                               Two_emitted(@, "testRunEnd", NoStep, ok),
                            !.last = r]
    /\ UNCHANGED twoFrozen

TwoNext ==
    \/ \E r \in TwoRuns : Two_TestRunBuilder_build(r)
    \/ \E r \in TwoRuns, o \in {"ok", "sv_failed", "trs_failed"} : Two_TestRun_start(r, o)
    \/ \E r \in TwoRuns, ok \in BOOLEAN : Two_StartedTestRun_log(r, ok)
    \/ \E r \in TwoRuns : Two_StartedTestRun_step(r)
    \/ \E r \in TwoRuns, ok \in BOOLEAN :
          \E i \in 1..Len(twin.runs[r].steps) : Two_TestStep_start(r, i, ok)
    \/ \E r \in TwoRuns, ok \in BOOLEAN : Two_StartedTestRun_end(r, ok)

SpecTwoRuns == TwoInit /\ [][TwoNext]_vars

\* ------------------------------------------------------------------ claims
\* The emit calls that have been assigned a sequence number.
Assigned == {c \in 1..Len(hist) : hist[c].seq # -1}

\* Position of call c in the order of lock acquisition (0: not yet acquired).
LockRank(c) ==
    IF \E i \in 1..Len(lockOrder) : lockOrder[i] = c
    THEN CHOOSE i \in 1..Len(lockOrder) : lockOrder[i] = c
    ELSE 0

\* The tasks that have read the sequence counter and not yet finished their write.
InAssignment == {t \in Tasks : pc[t] \in {"advance", "emit"}}

\* C1: the sequence numbers assigned to the N emit calls of a run (from the run and
\* its steps, in any interleaving) are exactly 0 .. N-1: none skipped, none assigned
\* twice.
C1_SequenceNumbersExact ==
    /\ \A c1, c2 \in Assigned : c1 # c2 => hist[c1].seq # hist[c2].seq
    /\ {hist[c].seq : c \in Assigned} = 0..(Cardinality(Assigned) - 1)

\* Four calls assigned, a step's artifact among them, two of them having taken the
\* lock in the opposite order of their issue.
C1_Witness ==
    /\ Cardinality(Assigned) >= 4
    /\ \E c \in Assigned : hist[c].testStepId # NoStep
    /\ \E c1, c2 \in Assigned : c1 < c2 /\ LockRank(c2) < LockRank(c1)

\* C2: at most one emit call of the run is between reading the sequence counter and
\* finishing its sink write, and the counter such a call has read is still the
\* counter when it advances it.
C2_EmissionMutuallyExclusive ==
    /\ Cardinality(InAssignment) <= 1
    /\ \A t \in Tasks : pc[t] = "advance" => sequence_no = hist[cur[t].id].seq
    /\ \A t \in InAssignment : lockHolder = t

\* One step's emit is between assignment and write while another step's emit waits
\* for the lock.
C2_Witness ==
    \E t1, t2 \in Tasks :
        /\ pc[t1] = "emit"
        /\ pc[t2] = "lock"
        /\ hist[cur[t1].id].testStepId # NoStep
        /\ hist[cur[t2].id].testStepId # NoStep
        /\ hist[cur[t1].id].testStepId # hist[cur[t2].id].testStepId

\* The calls whose line the sink accepted, in the order they acquired the lock.
Committed == SelectSeq(lockOrder, LAMBDA c : hist[c].res = "ok")

\* C3: lines reach the sink in strictly increasing sequence-number order, and that
\* order is the order in which the calls acquired the lock: the call that acquires
\* first gets the lower number and the earlier line.
C3_SinkInCommitOrder ==
    /\ \A i, j \in 1..Len(sink) :
          i < j => sink[i].sequenceNumber < sink[j].sequenceNumber
    /\ \A i, j \in 1..Len(lockOrder) :
          (i < j /\ lockOrder[i] \in Assigned /\ lockOrder[j] \in Assigned)
             => hist[lockOrder[i]].seq < hist[lockOrder[j]].seq
    /\ LET committed == Committed
       IN  /\ Len(sink) = Len(committed)
           /\ \A i \in 1..Len(sink) : sink[i] = Root(hist[committed[i]])

\* Two racing calls: the one issued later acquired the lock first and its line is
\* the earlier one.
C3_Witness ==
    LET committed == Committed
    IN  \E i, j \in 1..Len(sink) :
            /\ i < j
            /\ committed[j] < committed[i]

\* C4: the first line written is the schemaVersion marker with sequence number 0 and
\* the second is testRunStart with sequence number 1, whatever the run was built
\* with (no field of the run is read on the numbering path); a started run has both.
C4_FirstTwoLines ==
    /\ Len(sink) >= 1 =>
          sink[1].kind = "schemaVersion" /\ sink[1].sequenceNumber = 0
    /\ Len(sink) >= 2 =>
          sink[2].kind = "testRunStart" /\ sink[2].sequenceNumber = 1
    /\ phase = "started" => Len(sink) >= 2

\* A run was started and a later artifact followed its first two lines.
C4_Witness ==
    /\ phase = "started"
    /\ Len(sink) >= 3

\* The lines before position p that are child artifacts (neither the marker nor the
\* run's own start or end).
ChildLinesBefore(p) ==
    Cardinality({q \in 1..(p - 1) :
                    sink[q].kind \notin {"schemaVersion", "testRunStart", "testRunEnd"}})

\* The line at position p comes from the first end call to take the lock.
FirstEndCall(p) ==
    /\ sink[p].kind = "testRunEnd"
    /\ \A i \in 1..(LockRank(Committed[p]) - 1) : hist[lockOrder[i]].kind # "testRunEnd"

\* C5: a run is started, K child artifacts are emitted, then end is called: the
\* testRunEnd artifact is emitted with sequence number K + 2.
C5_RunEndAtKPlus2 ==
    \A p \in 1..Len(sink) :
        FirstEndCall(p) => sink[p].sequenceNumber = ChildLinesBefore(p) + 2

\* C6: for every two consecutive lines in the sink the later line's sequence
\* number is the earlier one's plus 1, also when emit calls failed between them.
C6_ConsecutiveLinesPlusOne ==
    \A i \in 1..(Len(sink) - 1) :
        sink[i + 1].sequenceNumber = sink[i].sequenceNumber + 1

\* C7: a failed emit (encode or write failure) leaves no line for its artifact in
\* the sink, returns an error, and keeps the number it was assigned: the counter
\* stays past it and the next call to take the lock gets the following number.
C7_FailedEmitConsumesNumber ==
    \A c \in Failed :
        /\ c \in Assigned
        /\ \A i \in 1..Len(sink) : sink[i].sequenceNumber # hist[c].seq
        /\ hist[c].ret # "Ok"
        /\ sequence_no > hist[c].seq
        /\ LockRank(c) < Len(lockOrder) =>
              LET d == lockOrder[LockRank(c) + 1]
              IN  d \in Assigned => hist[d].seq = hist[c].seq + 1

\* A failed call has returned its error and the next call wrote its line.
C7_Witness ==
    \E c \in Failed : \E d \in Assigned :
        /\ hist[c].ret = "Err"
        /\ LockRank(d) = LockRank(c) + 1
        /\ hist[d].res = "ok"

StartKinds == {"schemaVersion", "testRunStart"}

\* C8: if the schemaVersion emit fails, start returns the error without issuing
\* the testRunStart emit; if the testRunStart emit fails, start returns the error;
\* either way no StartedTestRun exists, so no step and no further artifact follows.
C8_StartShortCircuits ==
    /\ \A c \in {1, 2} \cap Failed :
          /\ Len(hist) = c
          /\ phase # "started"
          /\ hist[c].ret # "none" => hist[c].ret = "Err" /\ phase = "start_failed"
    /\ phase = "start_failed" =>
          /\ steps = <<>>
          /\ \A c \in 1..Len(hist) : hist[c].kind \in StartKinds
          /\ \A i \in 1..Len(sink) : sink[i].kind \in StartKinds
          /\ \A t \in Tasks : pc[t] = "idle"

\* The schemaVersion emit failed and start has returned the error.
C8_Witness ==
    /\ phase = "start_failed"
    /\ Len(hist) = 1
    /\ hist[1].kind = "schemaVersion"
    /\ hist[1].ret = "Err"

\* The calls that wrote their line, and those whose method returned Ok.
Written == {c \in 1..Len(hist) : hist[c].res = "ok"}

ReturnedOk == {c \in 1..Len(hist) : hist[c].ret = "Ok"}

\* Lines and successful calls correspond one to one.
LinesMatchOkCalls ==
    /\ Len(sink) = Cardinality(Written)
    /\ ReturnedOk \subseteq Written
    /\ (\A t \in Tasks : pc[t] = "idle") => Len(sink) = Cardinality(ReturnedOk)
    /\ \A c \in Written :
          Cardinality({i \in 1..Len(sink) : sink[i] = Root(hist[c])}) = 1
    /\ \A i \in 1..Len(sink) : \E c \in Written : sink[i] = Root(hist[c])

\* C9 (as stated): every emit call that has returned made exactly one sink write
\* attempt, and lines and Ok calls correspond one to one.
C9_ExactlyOneWriteAttempt ==
    /\ \A c \in 1..Len(hist) : hist[c].ret # "none" => hist[c].att = 1
    /\ LinesMatchOkCalls

\* C9 (amended): no emit call makes more than one sink write attempt; a returned
\* call made exactly one unless its encoding failed, in which case it made none;
\* lines and Ok calls correspond one to one.
C9_AtMostOneWriteAttempt ==
    /\ \A c \in 1..Len(hist) :
          /\ hist[c].att <= 1
          /\ hist[c].ret # "none" =>
                hist[c].att = (IF hist[c].res = "serfail" THEN 0 ELSE 1)
    /\ LinesMatchOkCalls

\* All calls have returned: one failed in encoding without touching the sink, and a
\* later one wrote its line.
C9_Witness ==
    /\ \A t \in Tasks : pc[t] = "idle"
    /\ \E c, d \in 1..Len(hist) :
          /\ c < d
          /\ hist[c].res = "serfail" /\ hist[c].ret = "Err" /\ hist[c].att = 0
          /\ hist[d].ret = "Ok" /\ hist[d].att = 1

\* C10: the i-th step created on a run (from 0) has id step_i, started or not and
\* whatever the order of the starts; a started step's testStepStart line carries it.
C10_StepIdsInCreationOrder ==
    \A i \in 1..Len(steps) :
        /\ steps[i].id = "step_" \o ToString(i - 1)
        /\ steps[i].state = "started" =>
              Cardinality({p \in 1..Len(sink) :
                              /\ sink[p].kind = "testStepStart"
                              /\ sink[p].testStepId = "step_" \o ToString(i - 1)}) = 1

\* Two steps started in the opposite order of their creation.
C10_Witness ==
    \E p, q \in 1..Len(sink) :
        /\ p < q
        /\ sink[p].kind = "testStepStart" /\ sink[p].testStepId = "step_1"
        /\ sink[q].kind = "testStepStart" /\ sink[q].testStepId = "step_0"

\* C11: the ids of the steps handed out by step() on one started run are pairwise
\* different and, after n calls, are exactly step_0 .. step_(n-1); the calls may come
\* from different tasks while other tasks are inside emitting calls.
C11_StepIdsUniqueAndExact ==
    /\ \A i, j \in 1..Len(steps) : i # j => steps[i].id # steps[j].id
    /\ {steps[i].id : i \in 1..Len(steps)} = {StepId(k) : k \in 0..(Len(steps) - 1)}

\* Two steps exist, the first still inside its start call on one task while another
\* task holds the emission lock.
C11_Witness ==
    /\ Len(steps) >= 2
    /\ steps[1].state = "starting"
    /\ \E t \in Tasks : lockHolder = t /\ cur[t].step # 1

\* The artifact kinds of a measurement series.
SeriesKinds == {"measurementSeriesStart", "measurementSeriesElement", "measurementSeriesEnd"}

\* The step-scope envelopes that are encoded and about to be written.
InWrite == {t \in Tasks : pc[t] = "emit" /\ art[t].kind # "none"}

\* C12: every artifact emitted from a step scope (testStepStart, testStepEnd, log,
\* error, measurement, measurementSeriesStart / Element / End) carries as testStepId
\* the id its step was given at creation and the id of no other step, also while a
\* call of the other step is under way.
C12_ArtifactsCarryOwnStepId ==
    /\ out.kind # "none" =>
          /\ out.testStepId = steps[outOf.step].id
          /\ \A j \in 1..Len(steps) : j # outOf.step => out.testStepId # steps[j].id
    /\ \A t \in InWrite :
          /\ StepRoot(art[t]).testStepId = steps[art[t].step].id
          /\ \A j \in 1..Len(steps) :
                j # art[t].step => StepRoot(art[t]).testStepId # steps[j].id

\* A series line of the first step was written last; the second step's call is in
\* its write while a call of the first step waits for the lock.
C12_Witness ==
    /\ out.kind \in SeriesKinds
    /\ outOf.step = 1
    /\ \E t, u \in Tasks :
          /\ pc[t] = "emit" /\ art[t].step = 2
          /\ pc[u] = "lock" /\ art[u].step = 1

C14_TotalCountIsElementsWritten ==
    /\ \A t \in InWrite :
          art[t].kind = "measurementSeriesEnd" =>
             StepRoot(art[t]).totalCount = series[art[t].series].elements
    /\ out.kind = "measurementSeriesEnd" =>
          out.totalCount = series[outOf.series].elements

\* An end line with a count of at least one was written for a series one of whose
\* add calls had failed.
C14_Witness ==
    /\ out.kind = "measurementSeriesEnd"
    /\ out.totalCount >= 1
    /\ series[outOf.series].addFailed

\* The series created with measurement_series(name) on the step of series s before s.
NamedBefore(s) ==
    {r \in 1..(s - 1) : series[r].step = series[s].step /\ series[r].given = ""}

\* C15: the series that measurement_series(name) creates on one step get the ids
\* series_0, series_1, ... in creation order, counted per step; no two of them on
\* one step share an id, whether or not the earlier one has ended.
C15_SeriesIdsPerStep ==
    /\ \A s \in 1..Len(series) :
          series[s].given = "" => series[s].id = SeriesId(Cardinality(NamedBefore(s)))
    /\ \A r, s \in 1..Len(series) :
          (r # s /\ series[r].step = series[s].step
                /\ series[r].given = "" /\ series[s].given = "") =>
             series[r].id # series[s].id

\* A second series was created by name on a step after the first one of that step
\* had been started and ended.
C15_Witness ==
    \E r, s \in 1..Len(series) :
       /\ r < s
       /\ series[r].step = series[s].step
       /\ series[r].given = "" /\ series[s].given = ""
       /\ series[r].ended
       /\ series[s].afterEnd

\* C16: the element and end lines of a series carry the measurementSeriesId of its
\* start line, and for a series created with measurement_series_with_details all
\* three carry the id the caller supplied.
C16_SeriesLinesShareId ==
    /\ \A s \in 1..Len(series) :
          (series[s].given # "" /\ series[s].state = "started") =>
             series[s].startLineId = series[s].given
    /\ out.kind \in SeriesKinds =>
          /\ series[outOf.series].startLineId = out.measurementSeriesId
          /\ series[outOf.series].given # "" =>
                out.measurementSeriesId = series[outOf.series].given
    /\ \A t \in InWrite :
          art[t].kind \in {"measurementSeriesElement", "measurementSeriesEnd"} =>
             StepRoot(art[t]).measurementSeriesId = series[art[t].series].startLineId

\* The end line of a series created with a supplied id was written after an
\* element of it.
C16_Witness ==
    /\ out.kind = "measurementSeriesEnd"
    /\ series[outOf.series].given # ""
    /\ series[outOf.series].elements >= 1

\* The lines of the sink of the given kind.
LinesOf(kind) == {i \in 1..Len(sink) : sink[i].kind = kind}

\* C17: only started objects emit: every run-level log or error, every step
\* artifact and every testRunEnd in the stream comes after a written testRunStart;
\* as long as the run has not started, no call other than start's own two emits
\* has been made and no step exists.
C17_OnlyStartedObjectsEmit ==
    /\ \A i \in 1..Len(sink) :
          sink[i].kind \notin StartKinds =>
             \E j \in 1..(i - 1) : sink[j].kind = "testRunStart"
    /\ phase # "started" =>
          /\ steps = <<>>
          /\ \A c \in 1..Len(hist) : hist[c].kind \in StartKinds

\* A step artifact and the run's end were written, after the run start.
C17_Witness ==
    /\ \E i \in 1..Len(sink) : sink[i].testStepId # NoStep
    /\ LinesOf("testRunEnd") # {}

\* C18: once testRunEnd is written nothing more is written on the run's stream:
\* testRunEnd is the last line and there is at most one.
C18_RunEndIsLastLine ==
    \A i \in LinesOf("testRunEnd") : i = Len(sink)

\* C19: the schemaVersion marker is written at most once per run, exactly once on a
\* started run, and the line before testRunStart is the marker; no call asks for
\* a second one.
C19_SchemaVersionOnce ==
    /\ Cardinality(LinesOf("schemaVersion")) <= 1
    /\ phase = "started" => Cardinality(LinesOf("schemaVersion")) = 1
    /\ \A i \in LinesOf("testRunStart") : i > 1 /\ sink[i - 1].kind = "schemaVersion"
    /\ Cardinality({c \in 1..Len(hist) : hist[c].kind = "schemaVersion"}) <= 1

\* Four lines, a step's among them, and one marker.
C19_Witness ==
    /\ Len(sink) >= 4
    /\ \E i \in 1..Len(sink) : sink[i].testStepId # NoStep
    /\ Cardinality(LinesOf("schemaVersion")) = 1

\* C20: building a run with name r, version v and dut id d, starting it and calling
\* end(status, result), with no other call and no failed emit, leaves exactly three
\* lines: schemaVersion with sequence number 0, testRunStart with sequence number 1
\* carrying r, v and d, and testRunEnd with sequence number 2 carrying the status
\* and the result that were passed.
C20_StartThenEndGivesThreeLines ==
    \A n \in Names, d \in DutIds, v \in Versions,
       status \in TestStatus, result \in TestResult :
       calls = <<CallRecord("new", n, d, v, "Ok"),
                 CallRecord("start", "", "", "", "Ok"),
                 CallRecord("end", status, result, "", "Ok")>>
       => /\ Len(sink) = 3
          /\ sink[1].kind = "schemaVersion" /\ sink[1].sequenceNumber = 0
          /\ sink[2].kind = "testRunStart" /\ sink[2].sequenceNumber = 1
          /\ sink[2].name = n /\ sink[2].version = v /\ sink[2].dutInfo.dutInfoId = d
          /\ sink[3].kind = "testRunEnd" /\ sink[3].sequenceNumber = 2
          /\ sink[3].status = TestStatusWire(status)
          /\ sink[3].result = TestResultWire(result)

\* A run was started and ended with a status and a result that are not the
\* builder's defaults.
C20_Witness ==
    /\ Len(calls) = 3
    /\ calls[2] = CallRecord("start", "", "", "", "Ok")
    /\ calls[3] = CallRecord("end", "Error", "Fail", "", "Ok")
    /\ Len(sink) = 3

\* The task that is inside start, between its two emits: the marker's emit has
\* returned and the lock for the run start is awaited.
BetweenStartEmits ==
    {t \in Tasks : cur[t].op = "start_trs" /\ pc[t] = "lock"}

\* C28: start takes the lock once for schemaVersion and once for testRunStart and
\* lets go of it in between, and still nothing of another call site comes between
\* the two lines: until start has returned no step exists, every emit call ever
\* issued is one of start's two, and the line written after the marker is the run
\* start.
C28_NothingBetweenStartLines ==
    /\ BetweenStartEmits # {} => lockHolder = 0 /\ lockOrder = <<1>>
    /\ \A c \in 1..Len(hist) :
          hist[c].kind = "testRunStart" /\ hist[c].seq # -1
             => Len(lockOrder) >= 2 /\ lockOrder[1] # lockOrder[2]
    /\ phase \in {"built", "starting"}
          => /\ steps = <<>>
             /\ \A c \in 1..Len(hist) : hist[c].kind \in StartKinds
    /\ \A i \in 1..Len(sink) :
          sink[i].kind = "schemaVersion" /\ i < Len(sink)
             => sink[i + 1].kind = "testRunStart"

\* start has let go of the lock after the marker and has not taken it again
\* yet, and another task is idle and could call if it held a started run.
C28_Witness ==
    /\ BetweenStartEmits # {}
    /\ lockHolder = 0
    /\ Len(sink) = 1
    /\ \E t \in Tasks : pc[t] = "idle"

\* The emit calls of log, error and end that handed an error back to their caller.
RunCallsFailed ==
    {c \in 1..Len(hist) : hist[c].ret = "Err" /\ hist[c].kind \notin StartKinds}

\* C30: a failed emit lets go of the lock and leaves the run usable: no task that
\* is outside an emit (idle, or waiting for the lock) holds the mutex, so a waiting
\* call can take it; after a run-level call returned an error the started run is
\* still there to be called; and every call issued after the failed one whose
\* write the sink accepted has its line in the sink, under its own number.
C30_FailedEmitLeavesRunUsable ==
    /\ \A t \in Tasks : pc[t] \in {"idle", "lock"} => lockHolder # t
    /\ RunCallsFailed # {} => StartedTestRunExists
    /\ \A c \in RunCallsFailed : \A d \in 1..Len(hist) :
          d > c /\ hist[d].res = "ok"
             => \E i \in 1..Len(sink) :
                   /\ sink[i].sequenceNumber = hist[d].seq
                   /\ sink[i].kind = hist[d].kind

\* A log, error or end returned an error and a call issued after it took the lock,
\* was numbered after it and reached the sink.
C30_Witness ==
    \E c \in RunCallsFailed : \E d \in 1..Len(hist) :
       /\ d > c
       /\ hist[d].res = "ok"
       /\ hist[d].seq > hist[c].seq
       /\ lockHolder = 0
       /\ sink[Len(sink)].sequenceNumber = hist[d].seq

\* C29: the emission discipline is free of deadlock: a task that waits for the lock
\* does not hold it, a task that is in no emitting method does not hold it, and,
\* under fair scheduling and a sink that answers, every task that is inside an
\* emitting method leaves it (every emit call returns).
C29_EveryEmitCallReturns ==
    /\ [](\A t \in Tasks : lockHolder = t => pc[t] \notin {"lock", "idle"})
    /\ \A t \in Tasks : (pc[t] # "idle") ~> (pc[t] = "idle")

\* A task waits for the lock while another task, inside its emit, holds it.
C29_Witness ==
    \E t, u \in Tasks :
       /\ t # u
       /\ pc[t] = "lock"
       /\ lockHolder = u
       /\ pc[u] = "emit"

\* The keys the measurementSeriesStart object is expected to have.
SeriesStartKeys ==
    {"measurementSeriesId", "name", "unit", "hardwareInfoId", "metadata",
     "subcomponent", "validators"}

\* C23: the measurementSeriesStart object of a series has exactly the keys
\* measurementSeriesId, name, unit, hardwareInfoId, metadata, subcomponent and
\* validators, an unset field with the value null; a subcomponent that was set is
\* found under the key `subcomponent`.
C23_SeriesStartKeys ==
    wire.op = "measurementSeriesStart"
       => /\ DOMAIN wire.json = SeriesStartKeys
          /\ ~wire.in.unit.some => wire.json["unit"] = JNull
          /\ ~wire.in.metadata.some => wire.json["metadata"] = JNull
          /\ wire.json["subcomponent"] =
                IF wire.in.subcomponent.some
                THEN Subcomponent_serialize(wire.in.subcomponent.v)
                ELSE JNull

\* The instant of a DateTime to the millisecond.
MillisOf(dt) == <<dt.secs, dt.nanos \div NanosPerMilli>>

\* C25: an element that was encoded and decoded again equals the original in
\* index, value, series id and metadata, and its timestamp is the same instant to
\* the millisecond, for every timestamp and time zone of the original.
C25_ElementRoundTrip ==
    wire.op = "decoded"
       => /\ wire.back.index = wire.in.index
          /\ wire.back.value = wire.in.value
          /\ wire.back.series_id = wire.in.series_id
          /\ wire.back.metadata = wire.in.metadata
          /\ MillisOf(wire.back.timestamp) = MillisOf(wire.in.timestamp)

\* The line that carries sequence number n, if the sink has one.
LineNumbered(n) == {i \in 1..Len(sink) : sink[i].sequenceNumber = n}

\* The calls that emitted a log and those that emitted an error, and were written.
LogCalls ==
    {i \in 1..Len(calls) : calls[i].op \in {"log", "log_with_details", "ocptv_log"}
                           /\ calls[i].res = "Ok"}

ErrorCalls ==
    {i \in 1..Len(calls) : calls[i].op \in {"error", "error_with_msg",
                                            "error_with_details", "ocptv_error"}
                           /\ calls[i].res = "Ok"}

\* C22: every optional field of an emitted artifact is in the line, with the value
\* null if it was not set: metadata of testRunStart and name, metadata,
\* softwareInfos, hardwareInfos, platformInfos of its dutInfo; sourceLocation of a
\* log; message, softwareInfoIds and sourceLocation of an error.
C22_UnsetFieldsAreNull ==
    /\ \A i \in LinesOf("testRunStart") :
          /\ "metadata" \in DOMAIN sink[i]
          /\ ~run.metadata.some => sink[i].metadata = JNull
          /\ DOMAIN sink[i].dutInfo =
                {"dutInfoId", "name", "metadata", "softwareInfos", "hardwareInfos",
                 "platformInfos"}
          /\ \A k \in DOMAIN sink[i].dutInfo \ {"dutInfoId"} :
                sink[i].dutInfo[k] = JNull
    /\ \A c \in LogCalls : \A i \in LineNumbered(calls[c].seq) :
          /\ "sourceLocation" \in DOMAIN sink[i]
          /\ ~calls[c].obj.source_location.some => sink[i].sourceLocation = JNull
    /\ \A c \in ErrorCalls : \A i \in LineNumbered(calls[c].seq) :
          /\ {"message", "softwareInfoIds", "sourceLocation"} \subseteq DOMAIN sink[i]
          /\ ~calls[c].obj.message.some => sink[i].message = JNull
          /\ ~calls[c].obj.software_infos.some => sink[i].softwareInfoIds = JNull
          /\ ~calls[c].obj.source_location.some => sink[i].sourceLocation = JNull

\* A default run was started and a plain log and a plain error were written, each
\* with its unset fields as null.
C22_Witness ==
    /\ Len(sink) = 4
    /\ sink[2].kind = "testRunStart" /\ sink[2].metadata = JNull
    /\ sink[2].dutInfo.name = JNull
    /\ \E i, j \in 3..4 :
          /\ sink[i].kind = "log" /\ sink[i].sourceLocation = JNull
          /\ sink[j].kind = "error" /\ sink[j].message = JNull
          /\ sink[j].softwareInfoIds = JNull /\ sink[j].sourceLocation = JNull

\* The wire strings of the schema, variant by variant.
StatusStrings == [Complete |-> "COMPLETE", Error |-> "ERROR", Skip |-> "SKIP"]

ResultStrings == [Pass |-> "PASS", Fail |-> "FAIL", NotApplicable |-> "NOT_APPLICABLE"]

SeverityStrings ==
    [Debug |-> "DEBUG", Info |-> "INFO", Warning |-> "WARNING", Error |-> "ERROR",
     Fatal |-> "FATAL"]

DiagnosisStrings == [Pass |-> "PASS", Fail |-> "FAIL", Unknown |-> "UNKNOWN"]

\* The calls that ended the run or a step.
EndCalls == {i \in 1..Len(calls) : calls[i].op \in {"end", "step_end"}}

\* C24: each enum value is written as its fixed wire string, and two values of one
\* enum never as the same string; the testRunEnd, testStepEnd and log lines carry
\* the wire string of the status, result and severity that the caller passed.
C24_EnumWireStrings ==
    /\ DOMAIN StatusStrings = TestStatus
    /\ DOMAIN ResultStrings = TestResult
    /\ DOMAIN SeverityStrings = LogSeverity
    /\ DOMAIN DiagnosisStrings = DiagnosisType
    /\ \A s \in TestStatus : TestStatusWire(s) = StatusStrings[s]
    /\ \A r \in TestResult : TestResultWire(r) = ResultStrings[r]
    /\ \A s \in LogSeverity : LogSeverityWire(s) = SeverityStrings[s]
    /\ \A d \in DiagnosisType : DiagnosisTypeWire(d) = DiagnosisStrings[d]
    /\ \A a, b \in TestStatus : a # b => TestStatusWire(a) # TestStatusWire(b)
    /\ \A a, b \in TestResult : a # b => TestResultWire(a) # TestResultWire(b)
    /\ \A a, b \in LogSeverity : a # b => LogSeverityWire(a) # LogSeverityWire(b)
    /\ \A a, b \in DiagnosisType : a # b => DiagnosisTypeWire(a) # DiagnosisTypeWire(b)
    /\ \A c \in EndCalls \cup LogCalls : \A i \in LineNumbered(calls[c].seq) :
          calls[c].res = "Ok"
             => /\ calls[c].op = "end"
                   => /\ sink[i].status = StatusStrings[calls[c].obj.status]
                      /\ sink[i].result = ResultStrings[calls[c].obj.result]
                /\ calls[c].op = "step_end"
                   => sink[i].status = StatusStrings[calls[c].obj.status]
                /\ c \in LogCalls
                   => sink[i].severity = SeverityStrings[calls[c].obj.severity]

\* A log of severity Fatal and the end of the run with Skip and NotApplicable
\* were written.
C24_Witness ==
    \E i, j \in 1..Len(sink) :
       /\ sink[i].kind = "log" /\ sink[i].severity = "FATAL"
       /\ sink[j].kind = "testRunEnd"
       /\ sink[j].status = "SKIP" /\ sink[j].result = "NOT_APPLICABLE"

\* The applications of the ocptv_error! and ocptv_log_<severity>! macros.
MacroCalls == {i \in 1..Len(calls) : calls[i].op \in {"ocptv_error", "ocptv_log"}}

\* C27: a macro applied to a started run does what error_with_details /
\* log_with_details does with the Error / Log built from the macro's arguments and
\* the call site: its emit takes exactly one sequence number, and the line written
\* is that artifact under that number.
C27_MacrosAreWithDetails ==
    \A c \in MacroCalls :
       /\ calls[c].res \in {"Ok", "Err"}
       /\ calls[c].seq >= 0
       /\ calls[c].obj.source_location \in {Some(site) : site \in CallSites}
       /\ calls[c].res = "Ok"
             => \E i \in LineNumbered(calls[c].seq) :
                   sink[i] = RootOf(IF calls[c].op = "ocptv_error"
                                    THEN Error_to_artifact(calls[c].obj)
                                    ELSE Log_to_artifact(calls[c].obj),
                                    calls[c].seq)

\* The calls of one setter made on the builder, and the last of them for a key.
SetterCalls(op) == {i \in 1..Len(calls) : calls[i].op = op}

LastSet(op, key) ==
    calls[CHOOSE i \in SetterCalls(op) :
             /\ calls[i].a = key
             /\ \A j \in SetterCalls(op) : calls[j].a = key => j <= i].b

\* The map the calls of a setter describe: every key given, each with the value
\* of the last call that gave it.
MapGiven(op, m) ==
    /\ DOMAIN m = {calls[i].a : i \in SetterCalls(op)}
    /\ \A key \in DOMAIN m : m[key] = LastSet(op, key)

RunStartLines == {i \in 1..Len(sink) : sink[i].kind = "testRunStart"}

\* C26: the testRunStart line carries what the builder was given: metadata is null
\* if add_metadata was never called and else the map of every added key with its
\* last value, parameters is the map of the add_parameter calls (empty if there
\* were none), and commandLine is the value of the last command_line call if there
\* was one.
C26_RunStartCarriesBuilderInput ==
    \A i \in RunStartLines :
       /\ IF SetterCalls("add_metadata") = {} THEN sink[i].metadata = JNull
          ELSE MapGiven("add_metadata", sink[i].metadata)
       /\ MapGiven("add_parameter", sink[i].parameters)
       /\ SetterCalls("command_line") # {}
             => \E c \in SetterCalls("command_line") :
                   /\ \A j \in SetterCalls("command_line") : j <= c
                   /\ sink[i].commandLine = calls[c].a

\* A run start written after add_metadata was called twice for one key with
\* different values and command_line was called.
C26_Witness ==
    /\ RunStartLines # {}
    /\ SetterCalls("command_line") # {}
    /\ \E i, j \in SetterCalls("add_metadata") :
          i < j /\ calls[i].a = calls[j].a /\ calls[i].b # calls[j].b

\* The two runs have the same timestamp source.
SameTimestampSource == twin.now = twin.second.now

\* The two runs have put out the same: the same lines in the same order, the same
\* step ids, and their sequence counters agree.
SameStream ==
    /\ sink = twin.second.sink
    /\ sequence_no = twin.second.sequence_no
    /\ steps = twin.second.steps

SubcomponentKeys(json) == DOMAIN json \cap {"subcomponent", "subComponent"}

\* C36: every field is written under its own wire key: an encoded diagnosis has
\* its hardware info under a hardware-info key and has no key `validators`, and an
\* encoded measurement and an encoded measurementSeriesStart write the
\* subcomponent under the same key.
C36_FieldsUnderOwnKeys ==
    /\ wire.op = "diagnosis"
          => /\ "validators" \notin DOMAIN wire.json
             /\ DOMAIN wire.json \cap {"hardwareInfoId", "hardwareInfo"} # {}
    /\ wire.op = "measurementSeriesStart"
          => \A m \in Measurements :
                SubcomponentKeys(Measurement_serialize(m)) = SubcomponentKeys(wire.json)

\* A step object was created in this step of the program.
StepCreated == Len(steps') = Len(steps) + 1

\* C32: step() only advances the step-id counter: when a step is created the
\* counter goes up by one and the sequence counter, the sink, the lock, the emit
\* calls and every task's position stay as they are; the step-id counter changes
\* in no other way, so no emit call changes it.
C32_StepOnlyAdvancesStepCounter ==
    [][/\ StepCreated
          => /\ step_seqno' = step_seqno + 1
             /\ UNCHANGED <<sequence_no, sink, lockHolder, lockOrder, hist, pc, cur>>
       /\ step_seqno' # step_seqno => StepCreated
       /\ (sequence_no' # sequence_no \/ sink' # sink \/ hist' # hist
             \/ lockHolder' # lockHolder)
          => step_seqno' = step_seqno]_vars

\* Two steps have been created, the second not yet started, while a task holds the
\* lock in the middle of an emit and lines have been written.
C32_Witness ==
    /\ Len(steps) = 2
    /\ steps[2].state = "created"
    /\ step_seqno = 2
    /\ lockHolder # 0
    /\ Len(sink) >= 2

\* The complete lines of the sink.
CompleteLines == {i \in 1..Len(sink) : sink[i].kind # "partial"}

\* C31: a dropped future leaves no lock behind: the mutex is only ever held by a
\* task inside an emit, every call of every task comes to its end (returned or
\* dropped), and the complete lines of the sink carry strictly increasing sequence
\* numbers.
C31_DroppedTaskReleasesLock ==
    /\ [](\A t \in Tasks : lockHolder = t => pc[t] \notin {"lock", "idle"})
    /\ [](\A i, j \in CompleteLines :
             i < j => sink[i].sequenceNumber < sink[j].sequenceNumber)
    /\ \A t \in Tasks : (pc[t] # "idle") ~> (pc[t] = "idle")

\* A future was dropped while it held the lock, after it had taken a sequence
\* number, and a call made afterwards has written its line with a higher number.
C31_Witness ==
    \E c \in Dropped :
       /\ hist[c].seq >= 0
       /\ \E i \in CompleteLines : sink[i].sequenceNumber > hist[c].seq
       /\ \E d \in 1..Len(hist) : d > c /\ hist[d].ret = "Ok"

\* The element lines of the series with id `id`, by their place in the sink.
ElementLines(id) ==
    {i \in 1..Len(sink) : /\ sink[i].kind = "measurementSeriesElement"
                          /\ sink[i].measurementSeriesId = id}

SeriesIdsInSink ==
    {sink[i].measurementSeriesId : i \in {j \in 1..Len(sink) :
                                            sink[j].kind = "measurementSeriesElement"}}

\* C33: the elements of one series appear in strictly increasing index order: of
\* two element lines of a series the earlier one has the lower index (and, the
\* sink being in sequence order, the lower sequence number).
C33_ElementsInIndexOrder ==
    \A id \in SeriesIdsInSink :
       \A i, j \in ElementLines(id) :
          i < j => /\ sink[i].index < sink[j].index
                   /\ sink[i].sequenceNumber < sink[j].sequenceNumber

\* The lines that carry a step id, and the lines of a series.
StepLines == {i \in 1..Len(sink) : sink[i].testStepId # NoStep}

SeriesLines ==
    {i \in StepLines : sink[i].kind \in {"measurementSeriesStart",
                                         "measurementSeriesElement",
                                         "measurementSeriesEnd"}}

\* The start line of step `id` / of series `sid` of step `id` is in the sink before
\* place i.
StepStartedBefore(id, i) ==
    \E j \in 1..(i - 1) : sink[j].kind = "testStepStart" /\ sink[j].testStepId = id

SeriesStartedBefore(id, sid, i) ==
    \E j \in SeriesLines :
       /\ j < i
       /\ sink[j].kind = "measurementSeriesStart"
       /\ sink[j].testStepId = id
       /\ sink[j].measurementSeriesId = sid

StartFailedSomewhere ==
    \/ \E i \in 1..Len(steps) : steps[i].state = "start_failed"
    \/ \E s \in 1..Len(series) : series[s].state = "start_failed"

\* The runs that have been built.
BuiltRuns == {r \in TwoRuns : twin.runs[r].phase # "unbuilt"}

\* All there is of run r: the object and, once built, the state it refers to.
RunView(r) ==
    <<twin.runs[r], IF r \in BuiltRuns THEN StateOf(r) ELSE TestState_new>>

\* C35: counters are per run: two runs built never refer to the same state, the
\* first line of each run has sequence number 0 and its first step is step_0, and
\* a call made on one run leaves the object, the counters and the output of the
\* other run as they were.
C35_CountersArePerRun ==
    /\ [](\A r, q \in BuiltRuns : r # q => twin.runs[r].state # twin.runs[q].state)
    /\ [](\A r \in BuiltRuns :
             /\ StateOf(r).sink # <<>> => StateOf(r).sink[1].sequenceNumber = 0
             /\ twin.runs[r].steps # <<>> => twin.runs[r].steps[1].id = StepId(0))
    /\ [][\A r \in TwoRuns : twin'.last # r => RunView(r)' = RunView(r)]_vars

\* Both runs have started, created a step and written its start line, the second
\* run after the first had already written lines.
C35_Witness ==
    /\ BuiltRuns = TwoRuns
    /\ \A r \in TwoRuns :
          /\ twin.runs[r].phase = "started"
          /\ twin.runs[r].steps # <<>>
          /\ \E i \in 1..Len(StateOf(r).sink) :
                /\ StateOf(r).sink[i].kind = "testStepStart"
                /\ StateOf(r).sink[i].testStepId = StepId(0)

====
